---------------------------- MODULE Spec2Model ----------------------------
(***************************************************************************)
(* A model of the daily management report engine of MCP_DMR:               *)
(*   - execute_with_retry                      (src/utils.py)              *)
(*   - DataUtils.normalize_value and the variance percentages              *)
(*                                (src/utils.py, src/analysis_engine.py)   *)
(*   - DateRangeCalculator                     (src/utils.py)              *)
(*   - the revenue, payroll and budget aggregators of AnalysisEngine       *)
(*                                             (src/analysis_engine.py)    *)
(*   - AnalysisEngine._get_top_bottom_rows     (src/analysis_engine.py)    *)
(*   - AnalysisEngine.generate_analysis        (src/analysis_engine.py)    *)
(*   - main                                    (src/main.py)               *)
(*   - the budget cells of the report and of the insights table            *)
(*                                             (src/analysis_engine.py)    *)
(*                                                                         *)
(* Python strings are modelled as sequences of one-character strings, so   *)
(* that lower(), strip() and the substring test are computed, not assumed. *)
(* Each part of the program has its own variables and its own              *)
(* specification; the variables of the other parts stay at their idle      *)
(* values.                                                                 *)
(***************************************************************************)
EXTENDS Integers, Sequences, FiniteSets, TLC

VARIABLES
    \* execute_with_retry
    max_retries,    \* the max_retries argument
    delay,          \* the delay argument (seconds)
    attempt,        \* the loop variable of `for attempt in range(1, max_retries + 1)`
    retry_pc,       \* "loop" | "sleep" | "returned" | "raised"
    events,         \* what the function has done so far: calls, failures, sleeps
    outcome,        \* the value returned or the error raised
    \* DataUtils.normalize_value
    nv_value,       \* the argument
    nv_ret,         \* what the call did: a returned float or a raised exception
    \* the variance percentages
    var_baseline,   \* baseline (anchor_value) argument
    var_actual,     \* actual (comparison_value) argument
    var_ret,        \* result of DataUtils.calculate_variance_percentage
    cmp_ret,        \* result of _calculate_comparison_variance_percentage
    var_divisors,   \* the divisors of the divisions performed so far
    \* DateRangeCalculator
    run_date_arg,           \* the run_date argument of the constructor
    is_current_date_arg,    \* the is_current_date argument
    use_exact_date,         \* the use_exact_date argument
    clock,                  \* what datetime.now() gives at construction
    dates_pc,               \* "new" before __init__, "ready" after it
    run_date,               \* self.run_date
    is_current_date,        \* self.is_current_date
    current_time,           \* self.current_time
    base_date,              \* self.base_date
    ranges,                 \* what get_all_ranges returned
    week_total_actual_ret,  \* what week_total_actual returned
    \* the insights table and its top/bottom ranking
    all_locations,      \* the location set of the run
    all_departments,    \* the department set of the run
    tb_titles,          \* department_to_title
    location_variance,  \* the variance percentages of the Visits rows
    payroll_variance,   \* the variance percentages of the Payroll rows
    revenue_variance,   \* the variance percentages of the Revenue rows
    insights_df,        \* the table built by _generate_insights_dataframe
    tb_sections,        \* sections of _get_top_bottom_rows
    tb_result,          \* result[variance_col] of _get_top_bottom_rows
    tb_pc,              \* "generate" | "rank" | "done"
    \* the contract-payroll rows of one range
    payroll_cols,       \* which optional columns dataframe_payroll has
    payroll_rows,       \* the rows of dataframe_payroll iterated so far
    payroll_acc,        \* what the loop over the rows has built
    payroll_raised,     \* the exception that left the loop, with its row
    \* the aggregation of one run
    is_current,                 \* the run is a current-date run
    data_store,                 \* the tables fetched, by range
    run_pc,                     \* "revenue" | "payroll" | "budget" | "done"
    processed_revenue,          \* by range: department code -> revenue
    processed_payroll,          \* by range: department code -> final payroll
    processed_financial_budget, \* by range: department code -> budget entry
    processed_visits_budget,    \* by range: location -> visits budget
    contract_by_range,          \* by range: calculated_wages of _process_payroll
    salary_by_range,            \* by range: salary_totals of _process_payroll
    history_by_range,           \* by range: history_totals of _process_payroll
    departments_set,            \* the department set of the run
    code_to_title_map,          \* the title map of the run
    title_writes,               \* the writes made to the title map, in order
    \* the aggregators, given tables whose columns may not be resolved
    agg_tables,     \* by category: the columns get_col resolves, and the rows
    agg_out,        \* the aggregator calls made so far, with what each did
    \* generate_analysis
    resort_config_from_env, \* the resort configuration came from the environment
    resort_name,            \* resort_config['resortName']
    ga_is_current,          \* is_current of generate_analysis
    analysis_type,          \* "rep" | "ins" | "both"
    ga_pc,          \* "connect" | "fetch" | "aggregate" | "report" | "insights"
                    \* | "except" | "returned" | "raised"
    ga_ranges_done, \* how many passes of the fetch loop are done
    ga_fetched,     \* the stored-procedure fetches issued so far
    ga_webhooks,    \* the payloads posted to the webhooks so far
    ga_exc,         \* the exception the except clause caught
    ga_result,      \* the result dictionary
    ga_outcome,     \* what generate_analysis returned or raised
    \* main
    main_analysis_type, \* the analysis_type argument of main
    main_pc,            \* "loop" | "returned"
    main_calls,         \* the generate_analysis calls made so far, in order:
                        \* the resort_config passed and what the call did
    saved_files,        \* saved_files
    \* a second computation of the date ranges
    first_ranges,   \* what get_all_ranges returned the first time
    \* the budget cells of the report and of the insights table
    rp_analysis_type,       \* generate_analysis's analysis_type
    rp_from_env,            \* resort_config_from_env
    rp_store,               \* the budget tables of data_store
    rp_locations,           \* locations_set
    rp_pc,                  \* the step generate_analysis is at
    rp_processed_budget,    \* processed_budget
    rp_visits_budget,       \* processed_visits_budget
    rp_insights_budget,     \* insights_budget
    rp_shared,              \* departments_set and code_to_title_map
    rp_report,              \* the Budget cells of the report
    rp_insights             \* the rows of the insights table, by section

retryVars == <<max_retries, delay, attempt, retry_pc, events, outcome>>

normalizeVars == <<nv_value, nv_ret>>

varianceVars == <<var_baseline, var_actual, var_ret, cmp_ret, var_divisors>>

datesVars == <<run_date_arg, is_current_date_arg, use_exact_date, clock,
               dates_pc, run_date, is_current_date, current_time, base_date,
               ranges, week_total_actual_ret>>

topBottomVars == <<all_locations, all_departments, tb_titles,
                   location_variance, payroll_variance, revenue_variance,
                   insights_df, tb_sections, tb_result, tb_pc>>

contractVars == <<payroll_cols, payroll_rows, payroll_acc, payroll_raised>>

runVars == <<is_current, data_store, run_pc, processed_revenue,
             processed_payroll, processed_financial_budget,
             processed_visits_budget, contract_by_range, salary_by_range,
             history_by_range, departments_set, code_to_title_map, title_writes>>

columnsVars == <<agg_tables, agg_out>>

generateVars == <<resort_config_from_env, resort_name, ga_is_current,
                  analysis_type, ga_pc, ga_ranges_done, ga_fetched,
                  ga_webhooks, ga_exc, ga_result, ga_outcome>>

\* the variables of the parts that follow the aggregation of a run
mainVars == <<main_analysis_type, main_pc, main_calls, saved_files>>

againVars == <<first_ranges>>

reportVars == <<rp_analysis_type, rp_from_env, rp_store, rp_locations, rp_pc,
                rp_processed_budget, rp_visits_budget, rp_insights_budget,
                rp_shared, rp_report, rp_insights>>

\* the variables of the parts added last
moreVars == <<againVars, reportVars>>

laterVars == <<columnsVars, generateVars, mainVars, moreVars>>

vars == <<retryVars, normalizeVars, varianceVars, datesVars, topBottomVars,
          contractVars, runVars, laterVars>>

\* what each part of the program leaves alone
notRetryVars == <<normalizeVars, varianceVars, datesVars, topBottomVars,
    contractVars, runVars, laterVars>>
notNormalizeVars == <<retryVars, varianceVars, datesVars, topBottomVars,
    contractVars, runVars, laterVars>>
notVarianceVars == <<retryVars, normalizeVars, datesVars, topBottomVars,
    contractVars, runVars, laterVars>>
notDatesVars == <<retryVars, normalizeVars, varianceVars, topBottomVars,
    contractVars, runVars, laterVars>>
notContractVars == <<retryVars, normalizeVars, varianceVars, datesVars,
    topBottomVars, runVars, laterVars>>
notRunVars == <<retryVars, normalizeVars, varianceVars, datesVars,
    topBottomVars, contractVars, laterVars>>
notColumnsVars == <<retryVars, normalizeVars, varianceVars, datesVars,
    topBottomVars, contractVars, runVars, generateVars, mainVars,
    moreVars>>
notGenerateVars == <<retryVars, normalizeVars, varianceVars, datesVars,
    topBottomVars, contractVars, runVars, columnsVars, mainVars,
    moreVars>>
notMainVars == <<retryVars, normalizeVars, varianceVars, datesVars,
    topBottomVars, contractVars, runVars, columnsVars, generateVars,
    moreVars>>
notDatesTwiceVars == <<retryVars, normalizeVars, varianceVars, topBottomVars,
    contractVars, runVars, columnsVars, generateVars, mainVars, reportVars>>
notReportVars == <<retryVars, normalizeVars, varianceVars, datesVars,
    topBottomVars, contractVars, runVars, columnsVars, generateVars, mainVars,
    againVars>>
notTopBottomVars == <<retryVars, normalizeVars, varianceVars, datesVars,
    contractVars, runVars, laterVars>>

-----------------------------------------------------------------------------
(* Python strings *)

UpperCase == <<"A","B","C","D","E","F","G","H","I","J","K","L","M",
               "N","O","P","Q","R","S","T","U","V","W","X","Y","Z">>

LowerCase == <<"a","b","c","d","e","f","g","h","i","j","k","l","m",
               "n","o","p","q","r","s","t","u","v","w","x","y","z">>

\* one character of str.lower()
LowerChar(c) ==
    IF \E i \in DOMAIN UpperCase : UpperCase[i] = c
    THEN LowerCase[CHOOSE i \in DOMAIN UpperCase : UpperCase[i] = c]
    ELSE c

\* str.lower()
StrLower(s) == [i \in 1..Len(s) |-> LowerChar(s[i])]

\* `keyword in s`
StrContains(s, keyword) ==
    \E i \in 0..(Len(s) - Len(keyword)) : SubSeq(s, i + 1, i + Len(keyword)) = keyword

-----------------------------------------------------------------------------
(* Python numbers.                                                         *)
(* A finite float is the exact rational n/d (rounding is not modelled);    *)
(* NaN and the infinities are values of their own.                         *)

RECURSIVE Gcd(_, _)
Gcd(a, b) == IF b = 0 THEN a ELSE Gcd(b, a % b)

Abs(x) == IF x < 0 THEN -x ELSE x

\* the float n/d in lowest terms, d > 0
Rat(n, d) ==
    LET g == Gcd(Abs(n), Abs(d))
        s == IF d < 0 THEN -1 ELSE 1
    IN  [t |-> "float", n |-> (s * n) \div g, d |-> (s * d) \div g]

Flt(n) == [t |-> "float", n |-> n, d |-> 1]

Zero == Flt(0)

NaN == [t |-> "nan"]
PosInf == [t |-> "inf", sign |-> 1]
NegInf == [t |-> "inf", sign |-> -1]

IsNan(x) == x.t = "nan"
IsInf(x) == x.t = "inf"
IsFinite(x) == x.t = "float"

\* float arithmetic on finite values
FAdd(x, y) == Rat(x.n * y.d + y.n * x.d, x.d * y.d)
FSub(x, y) == Rat(x.n * y.d - y.n * x.d, x.d * y.d)
FMul(x, y) == Rat(x.n * y.n, x.d * y.d)
FDiv(x, y) == Rat(x.n * y.d, x.d * y.n)
\* x < y: the whole parts decide, and the fractions when those are equal
FLess(x, y) ==
    IF x.n \div x.d # y.n \div y.d
    THEN x.n \div x.d < y.n \div y.d
    ELSE (x.n % x.d) * y.d < (y.n % y.d) * x.d
FAbs(x) == [x EXCEPT !.n = Abs(x.n)]

-----------------------------------------------------------------------------
(* float(value), as DataUtils.normalize_value calls it, src/utils.py:41 *)

\* the largest magnitude of the numbers drawn as inputs
MaxNum == 8

Digits == <<"0","1","2","3","4","5","6","7","8","9">>

IsDigit(c) == \E i \in DOMAIN Digits : Digits[i] = c

DigitValue(c) == (CHOOSE i \in DOMAIN Digits : Digits[i] = c) - 1

RECURSIVE DigitsValue(_)
DigitsValue(s) ==
    IF s = << >> THEN 0
    ELSE 10 * DigitsValue(SubSeq(s, 1, Len(s) - 1)) + DigitValue(s[Len(s)])

IsSpace(c) == c \in {" ", "\t", "\n"}

\* str.strip()
RECURSIVE StrStrip(_)
StrStrip(s) ==
    IF s = << >> THEN s
    ELSE IF IsSpace(s[1]) THEN StrStrip(Tail(s))
    ELSE IF IsSpace(s[Len(s)]) THEN StrStrip(SubSeq(s, 1, Len(s) - 1))
    ELSE s

Returned(value) == [kind |-> "return", value |-> value]
Raised(exc) == [kind |-> "raise", exc |-> exc]

\* float(str): surrounding whitespace is dropped, then an optional sign and
\* either a run of digits or one of the words nan, inf, infinity (any case);
\* anything else is a ValueError.  Fractions and exponents are not drawn.
FloatOfStr(s) ==
    LET body == StrStrip(s)
        signed == body # << >> /\ body[1] \in {"+", "-"}
        sign == IF signed /\ body[1] = "-" THEN -1 ELSE 1
        rest == StrLower(IF signed THEN Tail(body) ELSE body)
    IN  IF rest = <<"n","a","n">> THEN Returned(NaN)
        ELSE IF rest \in { <<"i","n","f">>, <<"i","n","f","i","n","i","t","y">> }
             THEN Returned([t |-> "inf", sign |-> sign])
        ELSE IF rest # << >> /\ \A i \in DOMAIN rest : IsDigit(rest[i])
             THEN Returned(Flt(sign * DigitsValue(rest)))
        ELSE Raised("ValueError")

\* float(value) by the type of value
PyFloat(value) ==
    CASE value.py = "float" -> Returned(value.x)
      [] value.py = "int" -> Returned(Flt(value.v))
      [] value.py = "bool" -> Returned(Flt(IF value.v THEN 1 ELSE 0))
      \* an int beyond the range of a float
      [] value.py = "hugeint" -> Raised("OverflowError")
      [] value.py = "Decimal" -> Returned(Flt(value.v))
      \* a Decimal beyond the range of a float converts to an infinity
      [] value.py = "hugeDecimal" -> Returned([t |-> "inf", sign |-> value.sign])
      [] value.py = "DecimalNaN" -> Returned(NaN)
      [] value.py = "DecimalSNaN" -> Raised("ValueError")
      [] value.py = "str" -> FloatOfStr(value.s)
      \* a list, a dict, a datetime: float() argument must be a string or a number
      [] value.py = "object" -> Raised("TypeError")

PyNone == [py |-> "None"]
PyFlt(n) == [py |-> "float", x |-> Flt(n)]

\* DataUtils.normalize_value, src/utils.py:36-46
NormalizeValue(value) ==
    IF value = PyNone THEN Returned(Zero)
    ELSE LET val == PyFloat(value)
         IN  IF val.kind = "raise"
             THEN IF val.exc \in {"TypeError", "ValueError"}
                  THEN Returned(Zero)
                  ELSE val
             ELSE IF IsNan(val.value) \/ IsInf(val.value)
                  THEN Returned(Zero)
                  ELSE Returned(val.value)

\* the arguments normalize_value is tried on
NumericStrings ==
    { <<"1","2">>, <<" ","7"," ">>, <<"-","3">>, <<"+","0">>, <<"0","4","0">>,
      <<"N","a","N">>, <<"-","i","n","f">>, <<"I","n","f","i","n","i","t","y">>,
      <<"a","b","c">>, << >>, <<" ">>, <<"1"," ","2">>, <<"-">> }

PyValues ==
    {PyNone}
    \cup { [py |-> "float", x |-> Flt(n)] : n \in -MaxNum..MaxNum }
    \cup { [py |-> "float", x |-> x] : x \in {NaN, PosInf, NegInf} }
    \cup { [py |-> "int", v |-> n] : n \in -MaxNum..MaxNum }
    \cup { [py |-> "bool", v |-> b] : b \in BOOLEAN }
    \cup { [py |-> "hugeint", sign |-> sg] : sg \in {-1, 1} }
    \cup { [py |-> "Decimal", v |-> n] : n \in -MaxNum..MaxNum }
    \cup { [py |-> "hugeDecimal", sign |-> sg] : sg \in {-1, 1} }
    \cup { [py |-> "DecimalNaN"], [py |-> "DecimalSNaN"], [py |-> "object"] }
    \cup { [py |-> "str", s |-> s] : s \in NumericStrings }

NotCalled == [kind |-> "none"]

InitNormalize ==
    /\ nv_value \in PyValues
    /\ nv_ret = NotCalled

IdleNormalize ==
    /\ nv_value = PyNone
    /\ nv_ret = NotCalled

\* one call of DataUtils.normalize_value(nv_value)
CallNormalizeValue ==
    /\ nv_ret = NotCalled
    /\ nv_ret' = NormalizeValue(nv_value)
    /\ UNCHANGED <<nv_value, notNormalizeVars>>

-----------------------------------------------------------------------------
(* The variance percentages.                                               *)
(* The arguments are counted in units of 5e-11, so that the threshold      *)
(* 1e-10 is a whole number of units and values below it can be drawn; the  *)
(* results are percentages, which do not depend on the unit.               *)

\* 1e-10, in units of 5e-11
VarianceEps == 2

\* 1e6, the largest magnitude calculate_variance_percentage returns
VarianceCap == 1000000

\* the largest magnitude of the ordinary arguments drawn
MaxVarianceArg == 4

\* the magnitude of the large arguments drawn
HugeVarianceArg == 100000

VarianceArgs ==
    {PyNone}
    \cup { PyFlt(n) : n \in -MaxVarianceArg..MaxVarianceArg }
    \cup { PyFlt(HugeVarianceArg), PyFlt(-HugeVarianceArg) }
    \cup { [py |-> "float", x |-> x] : x \in {NaN, PosInf, NegInf} }

\* line 99, line 1545: abs(baseline) < 1e-10
BelowEpsExactZero(x) == x.n = 0

BelowEps(x) == FLess(FAbs(x), Flt(VarianceEps))

\* DataUtils.calculate_variance_percentage, src/utils.py:94-111; the result
\* and the divisors of the divisions it performs
CalculateVariancePercentage(baseline, actual) ==
    LET b == NormalizeValue(baseline).value
        a == NormalizeValue(actual).value
    IN  IF BelowEps(b)
        THEN [ret |-> Returned(Zero), divisors |-> {}]
        ELSE IF b.n = 0
        \* ZeroDivisionError, caught at line 110
        THEN [ret |-> Returned(Zero), divisors |-> {b}]
        ELSE LET result == FMul(FDiv(FSub(a, b), b), Flt(100))
                 normalized_result == NormalizeValue([py |-> "float", x |-> result]).value
             IN  [ret |-> IF FLess(Flt(VarianceCap), FAbs(normalized_result))
                          THEN Returned(Zero)
                          ELSE Returned(normalized_result),
                  divisors |-> {b}]

\* AnalysisEngine._calculate_comparison_variance_percentage,
\* src/analysis_engine.py:1542-1551
CalculateComparisonVariancePercentage(comparison_value, anchor_value) ==
    LET c == NormalizeValue(comparison_value).value
        a == NormalizeValue(anchor_value).value
    IN  IF BelowEps(a)
        THEN [ret |-> Returned(Zero), divisors |-> {}]
        ELSE IF a.n = 0
        \* ZeroDivisionError, caught at line 1550
        THEN [ret |-> Returned(Zero), divisors |-> {a}]
        ELSE LET result == FDiv(FMul(FSub(c, a), Flt(100)), a)
             IN  [ret |-> NormalizeValue([py |-> "float", x |-> result]),
                  divisors |-> {a}]

InitVariance ==
    /\ var_baseline \in VarianceArgs
    /\ var_actual \in VarianceArgs
    /\ var_ret = NotCalled
    /\ cmp_ret = NotCalled
    /\ var_divisors = {}

IdleVariance ==
    /\ var_baseline = PyNone
    /\ var_actual = PyNone
    /\ var_ret = NotCalled
    /\ cmp_ret = NotCalled
    /\ var_divisors = {}

\* one call of DataUtils.calculate_variance_percentage(var_baseline, var_actual)
CallCalculateVariancePercentage ==
    /\ var_ret = NotCalled
    /\ LET call == CalculateVariancePercentage(var_baseline, var_actual)
       IN  /\ var_ret' = call.ret
           /\ var_divisors' = var_divisors \cup call.divisors
    /\ UNCHANGED <<var_baseline, var_actual, cmp_ret, notVarianceVars>>

\* one call of _calculate_comparison_variance_percentage(var_actual, var_baseline)
CallCalculateComparisonVariancePercentage ==
    /\ cmp_ret = NotCalled
    /\ LET call == CalculateComparisonVariancePercentage(var_actual, var_baseline)
       IN  /\ cmp_ret' = call.ret
           /\ var_divisors' = var_divisors \cup call.divisors
    /\ UNCHANGED <<var_baseline, var_actual, var_ret, notVarianceVars>>

-----------------------------------------------------------------------------
(* datetime and timedelta, as DateRangeCalculator uses them.  A datetime is
   a record of its calendar date, the second of its day and its microsecond;
   the calendar is the proleptic Gregorian one of the datetime module. *)

IsLeap(year) == year % 4 = 0 /\ (year % 100 # 0 \/ year % 400 = 0)

DaysInMonth(year, month) ==
    IF month = 2 THEN (IF IsLeap(year) THEN 29 ELSE 28)
    ELSE IF month \in {4, 6, 9, 11} THEN 30 ELSE 31

RECURSIVE DaysBeforeMonth(_, _)
DaysBeforeMonth(year, month) ==
    IF month = 1 THEN 0
    ELSE DaysBeforeMonth(year, month - 1) + DaysInMonth(year, month - 1)

DaysBeforeYear(year) ==
    LET y == year - 1
    IN  y * 365 + y \div 4 - y \div 100 + y \div 400

\* datetime.toordinal(): Jan 1 of year 1 is day 1
ToOrdinal(dt) ==
    DaysBeforeYear(dt.year) + DaysBeforeMonth(dt.year, dt.month) + dt.day

\* the calendar date of an ordinal, with the time of day of dt
FromOrdinal(n, dt) ==
    LET year == CHOOSE y \in ((n - 1) \div 366 + 1)..((n - 1) \div 365 + 1) :
                    DaysBeforeYear(y) < n /\ n <= DaysBeforeYear(y + 1)
        rest == n - DaysBeforeYear(year)
        month == CHOOSE m \in 1..12 :
                    /\ DaysBeforeMonth(year, m) < rest
                    /\ rest <= DaysBeforeMonth(year, m) + DaysInMonth(year, m)
    IN  [dt EXCEPT !.year = year, !.month = month,
                   !.day = rest - DaysBeforeMonth(year, month)]

\* datetime(year, month, day, 0, 0, 0)
DateTime(year, month, day) ==
    [year |-> year, month |-> month, day |-> day, second |-> 0, microsecond |-> 0]

SecondsPerDay == 24 * 60 * 60

\* dt + timedelta(days=days), days of either sign
PlusDays(dt, days) == FromOrdinal(ToOrdinal(dt) + days, dt)

\* dt + timedelta(seconds=seconds), for less than a day
PlusSeconds(dt, seconds) ==
    IF dt.second + seconds < SecondsPerDay
    THEN [dt EXCEPT !.second = dt.second + seconds]
    ELSE [PlusDays(dt, 1) EXCEPT !.second = dt.second + seconds - SecondsPerDay]

\* dt.weekday(): Monday is 0
Weekday(dt) == (ToOrdinal(dt) + 6) % 7

\* dt.replace(hour=0, minute=0, second=0, microsecond=0)
StartOfDay(dt) == [dt EXCEPT !.second = 0, !.microsecond = 0]

\* dt.replace(hour=23, minute=59, second=59, microsecond=0)
EndOfDay(dt) == [dt EXCEPT !.second = SecondsPerDay - 1, !.microsecond = 0]

\* dt.replace(year=year): a ValueError when the day is not in that month
ReplaceYear(dt, year) ==
    IF dt.day <= DaysInMonth(year, dt.month)
    THEN Returned([dt EXCEPT !.year = year])
    ELSE Raised("ValueError")

\* try: dt.replace(year=year)  except ValueError: dt.replace(year=year, day=28)
ReplaceYearOrDay28(dt, year) ==
    LET replaced == ReplaceYear(dt, year)
    IN  IF replaced.kind = "return" THEN replaced.value
        ELSE [dt EXCEPT !.year = year, !.day = 28]

\* a <= b on datetimes
DtLE(a, b) ==
    LET oa == ToOrdinal(a)
        ob == ToOrdinal(b)
    IN  \/ oa < ob
        \/ /\ oa = ob
           /\ \/ a.second < b.second
              \/ a.second = b.second /\ a.microsecond <= b.microsecond

-----------------------------------------------------------------------------
(* DateRangeCalculator, src/utils.py:114-254 *)

\* the reference dates drawn are the days of YearSpan + 1 years from 2023,
\* which hold a leap year, and the clock advances by at most MaxClockStep
\* seconds between two reads of datetime.now()
YearSpan == 2
MaxClockStep == 1

ValidRunDates ==
    LET RunYears == 2023..(2023 + YearSpan)
        TimesOfDay ==
            { [second |-> 0, microsecond |-> 0],
              [second |-> 12 * 3600 + 30 * 60, microsecond |-> 250000],
              [second |-> SecondsPerDay - 1, microsecond |-> 999999] }
        RunDates ==
            { [year |-> y, month |-> m, day |-> d,
               second |-> t.second, microsecond |-> t.microsecond] :
                 y \in RunYears, m \in 1..12, d \in 1..31, t \in TimesOfDay }
    IN  { dt \in RunDates : dt.day <= DaysInMonth(dt.year, dt.month) }

\* the values datetime.now() gives when the calculator is built
ClockValues ==
    { [DateTime(2024, 2, 29) EXCEPT !.second = 9 * 3600, !.microsecond = 123456],
      [DateTime(2024, 11, 6) EXCEPT !.second = SecondsPerDay - 1, !.microsecond = 999999] }

RangeNames ==
    { "For The Day (Actual)", "For The Day (Prior Year)",
      "For The Week Ending (Actual)", "For The Week Ending (Prior Year)",
      "Week Total (Prior Year)",
      "Month to Date (Actual)", "Month to Date (Prior Year)",
      "For Winter Ending (Actual)", "For Winter Ending (Prior Year)" }

\* the Actual ranges end at the base date in every case
ActualRangeEndAtBaseDate == base_date

\* the end of the Actual ranges, src/utils.py:157-160
ActualRangeEnd ==
    IF is_current_date /\ current_time # PyNone THEN current_time ELSE base_date

for_the_day_actual == <<StartOfDay(base_date), ActualRangeEnd>>

for_the_day_prior_year ==
    LET prior_date == PlusDays(base_date, -(52 * 7))
    IN  <<StartOfDay(prior_date), prior_date>>

week_ending_actual ==
    LET days_since_monday == Weekday(base_date)
    IN  <<StartOfDay(PlusDays(base_date, -days_since_monday)), ActualRangeEnd>>

week_ending_prior_year ==
    LET prior_end_date == PlusDays(base_date, -(52 * 7))
        days_since_monday == Weekday(prior_end_date)
    IN  <<StartOfDay(PlusDays(prior_end_date, -days_since_monday)), prior_end_date>>

week_total_prior_year ==
    LET prior_date == PlusDays(base_date, -(52 * 7))
        days_since_monday == Weekday(prior_date)
        range_start == StartOfDay(PlusDays(prior_date, -days_since_monday))
    IN  <<range_start, EndOfDay(PlusDays(range_start, 6))>>

week_total_actual ==
    LET days_since_monday == Weekday(base_date)
        range_start == StartOfDay(PlusDays(base_date, -days_since_monday))
    IN  <<range_start, EndOfDay(PlusDays(range_start, 6))>>

month_to_date_actual ==
    <<[StartOfDay(base_date) EXCEPT !.day = 1], ActualRangeEnd>>

month_to_date_prior_year ==
    LET prior_year == base_date.year - 1
        prior_end_date == ReplaceYearOrDay28(base_date, prior_year)
    IN  <<[StartOfDay(prior_end_date) EXCEPT !.day = 1], prior_end_date>>

\* the mutation of season_start_year: the season starts in December
season_start_year_from_december(current_month, current_year) ==
    IF current_month >= 12 THEN current_year ELSE current_year - 1

\* season_start_year, src/utils.py:228-231 and 248-251
season_start_year(current_month, current_year) ==
    IF current_month >= 11 THEN current_year ELSE current_year - 1

winter_ending_actual ==
    <<DateTime(season_start_year(base_date.month, base_date.year), 11, 1),
      ActualRangeEnd>>

winter_ending_prior_year ==
    LET prior_date_year == base_date.year - 1
        range_end == ReplaceYearOrDay28(base_date, prior_date_year)
    IN  <<DateTime(season_start_year(base_date.month, prior_date_year), 11, 1),
          range_end>>

get_all_ranges ==
    [name \in RangeNames |->
        CASE name = "For The Day (Actual)" -> for_the_day_actual
          [] name = "For The Day (Prior Year)" -> for_the_day_prior_year
          [] name = "For The Week Ending (Actual)" -> week_ending_actual
          [] name = "For The Week Ending (Prior Year)" -> week_ending_prior_year
          [] name = "Week Total (Prior Year)" -> week_total_prior_year
          [] name = "Month to Date (Actual)" -> month_to_date_actual
          [] name = "Month to Date (Prior Year)" -> month_to_date_prior_year
          [] name = "For Winter Ending (Actual)" -> winter_ending_actual
          [] name = "For Winter Ending (Prior Year)" -> winter_ending_prior_year]

InitDates ==
    /\ run_date_arg \in ValidRunDates \cup {PyNone}
    /\ is_current_date_arg \in BOOLEAN
    /\ use_exact_date \in BOOLEAN
    /\ clock \in ClockValues
    /\ dates_pc = "new"
    /\ run_date = PyNone
    /\ is_current_date = FALSE
    /\ current_time = PyNone
    /\ base_date = PyNone
    /\ ranges = NotCalled
    /\ week_total_actual_ret = NotCalled

IdleDates ==
    /\ run_date_arg = PyNone
    /\ is_current_date_arg = FALSE
    /\ use_exact_date = FALSE
    /\ clock = PyNone
    /\ dates_pc = "idle"
    /\ run_date = PyNone
    /\ is_current_date = FALSE
    /\ current_time = PyNone
    /\ base_date = PyNone
    /\ ranges = NotCalled
    /\ week_total_actual_ret = NotCalled

\* DateRangeCalculator.__init__, src/utils.py:117-138
DateRangeCalculatorInit ==
    /\ dates_pc = "new"
    /\ \E step \in 0..MaxClockStep :
         LET the_run_date == IF run_date_arg # PyNone THEN run_date_arg ELSE clock
         IN  /\ run_date' = the_run_date
             /\ is_current_date' = is_current_date_arg
             /\ current_time' = IF is_current_date_arg
                                THEN PlusSeconds(clock, step) ELSE PyNone
             /\ base_date' =
                  IF is_current_date_arg THEN the_run_date
                  ELSE IF use_exact_date THEN EndOfDay(the_run_date)
                  ELSE EndOfDay(PlusDays(the_run_date, -1))
    /\ dates_pc' = "ready"
    /\ UNCHANGED <<run_date_arg, is_current_date_arg, use_exact_date, clock,
                   ranges, week_total_actual_ret, notDatesVars>>

\* DateRangeCalculator.get_all_ranges, src/utils.py:140-152
CallGetAllRanges ==
    /\ dates_pc = "ready"
    /\ ranges = NotCalled
    /\ ranges' = Returned(get_all_ranges)
    /\ UNCHANGED <<run_date_arg, is_current_date_arg, use_exact_date, clock,
                   dates_pc, run_date, is_current_date, current_time, base_date,
                   week_total_actual_ret, notDatesVars>>

\* DateRangeCalculator.week_total_actual, src/utils.py:196-202
CallWeekTotalActual ==
    /\ dates_pc = "ready"
    /\ week_total_actual_ret = NotCalled
    /\ week_total_actual_ret' = Returned(week_total_actual)
    /\ UNCHANGED <<run_date_arg, is_current_date_arg, use_exact_date, clock,
                   dates_pc, run_date, is_current_date, current_time, base_date,
                   ranges, notDatesVars>>

\* nothing has been computed a second time
IdleAgain == first_ranges = NotCalled

\* the calculators whose ranges are computed twice: the reference date is
\* in the months of the clock values
InitDatesTwice ==
    /\ InitDates
    /\ run_date_arg # PyNone =>
          run_date_arg.year = 2024 /\ run_date_arg.month \in {2, 11}

IdleReport ==
    /\ rp_analysis_type = "rep"
    /\ rp_from_env = FALSE
    /\ rp_store = NotCalled
    /\ rp_locations = {}
    /\ rp_pc = "idle"
    /\ rp_processed_budget = NotCalled
    /\ rp_visits_budget = NotCalled
    /\ rp_insights_budget = NotCalled
    /\ rp_shared = NotCalled
    /\ rp_report = NotCalled
    /\ rp_insights = NotCalled

IdleMore == IdleAgain /\ IdleReport

\* the ranges are computed again from the same arguments: the calculator is
\* built anew, src/utils.py:117-138, after the clock has advanced by at most
\* MaxClockStep seconds
ComputeAgain ==
    /\ dates_pc = "ready"
    /\ ranges # NotCalled
    /\ first_ranges = NotCalled
    /\ first_ranges' = ranges
    /\ \E elapsed \in 0..MaxClockStep : clock' = PlusSeconds(clock, elapsed)
    /\ dates_pc' = "new"
    /\ ranges' = NotCalled
    /\ UNCHANGED <<run_date_arg, is_current_date_arg, use_exact_date,
                   run_date, is_current_date, current_time, base_date,
                   week_total_actual_ret, notDatesTwiceVars>>

-----------------------------------------------------------------------------
(* The insights table and its top/bottom ranking,
   src/analysis_engine.py:550-687.  One variance column is followed: the
   code treats each variance column alone, by the same statements. *)

\* a dict with key k set to v
DictSet(dict, k, v) ==
    [x \in DOMAIN dict \cup {k} |-> IF x = k THEN v ELSE dict[x]]

EmptyDict == [x \in {} |-> x]

\* n of _get_top_bottom_rows(df, n=3), src/analysis_engine.py:695
TopBottomN == 3

\* at most MaxDepartments department codes are in all_departments
MaxDepartments == 4

section_headers == <<"Visits", "Payroll", "Revenue">>

SectionNames == { section_headers[i] : i \in DOMAIN section_headers }

\* location names and department codes, each in sorted() order
LocationPool == <<"Lodge", "Payroll">>
DeptCodePool == <<"10", "20", "30", "40", "50">>

\* the titles department "20" may carry in department_to_title
DeptTitles == {"Rental Shop", "Payroll", "Revenue"}

\* a cell of the table: a float, or the empty string of a header row
StrCell(s) == [py |-> "str", s |-> s]
FloatCell(x) == [py |-> "float", x |-> x]

\* variance percentages of the locations, by position in LocationPool
LocationVariances == [DOMAIN LocationPool -> {Flt(0), Flt(12)}]

\* variance percentages of k departments, by position in DeptCodePool
PayrollVariances(k) == [1..k -> {Flt(-5), Flt(30)}]
RevenueVariances(k) ==
    { [i \in 1..k |-> Flt(0)], [i \in 1..k |-> Flt(10 * i - 20)] }

\* a header row of the table, src/analysis_engine.py:575-577
HeaderRow(name) ==
    [row_header |-> name, dept_code |-> "", variance |-> StrCell("")]

\* the part of _build_insights_row that the ranking reads,
\* src/analysis_engine.py:526-548
BuildInsightsRow(row_header, dept_code, variance) ==
    [row_header |-> row_header, dept_code |-> dept_code,
     variance |-> FloatCell(variance)]

\* the elements of a sorted pool that are in a set, in order
RECURSIVE SortedMembers(_, _)
SortedMembers(pool, members) ==
    IF pool = << >> THEN << >>
    ELSE (IF Head(pool) \in members THEN <<Head(pool)>> ELSE << >>)
         \o SortedMembers(Tail(pool), members)

PoolIndex(pool, name) == CHOOSE i \in DOMAIN pool : pool[i] = name

\* department_to_title.get(dept_code, dept_code)
TitleOf(titles, dept_code) ==
    IF dept_code \in DOMAIN titles THEN titles[dept_code] ELSE dept_code

\* _generate_insights_dataframe, src/analysis_engine.py:550-604
GenerateInsightsDataframe(locations, departments, titles, loc_var, pay_var, rev_var) ==
    LET locs == SortedMembers(LocationPool, locations)
        depts == SortedMembers(DeptCodePool, departments)
    IN  <<HeaderRow("Visits")>>
        \o [i \in DOMAIN locs |->
              BuildInsightsRow(locs[i], "", loc_var[PoolIndex(LocationPool, locs[i])])]
        \o <<HeaderRow("Payroll")>>
        \o [i \in DOMAIN depts |->
              BuildInsightsRow(TitleOf(titles, depts[i]), depts[i],
                               pay_var[PoolIndex(DeptCodePool, depts[i])])]
        \o <<HeaderRow("Revenue")>>
        \o [i \in DOMAIN depts |->
              BuildInsightsRow(TitleOf(titles, depts[i]), depts[i],
                               rev_var[PoolIndex(DeptCodePool, depts[i])])]

\* the row of the table at a 0-based index, df.iloc[idx]
RowAt(df, idx) == df[idx + 1]

\* the scan for section boundaries, src/analysis_engine.py:620-639; the None
\* of current_section is the empty string and that of section_start_idx is -1
RECURSIVE SectionScan(_, _, _, _, _)
SectionScan(df, idx, current_section, section_start_idx, sections) ==
    IF idx = Len(df)
    THEN IF current_section # "" /\ section_start_idx # -1
         THEN DictSet(sections, current_section, <<section_start_idx, Len(df)>>)
         ELSE sections
    ELSE IF RowAt(df, idx).row_header \in SectionNames
         THEN SectionScan(df, idx + 1, RowAt(df, idx).row_header, idx,
                          IF current_section # "" /\ section_start_idx # -1
                          THEN DictSet(sections, current_section,
                                       <<section_start_idx, idx>>)
                          ELSE sections)
         ELSE SectionScan(df, idx + 1, current_section, section_start_idx, sections)

\* the indices of df.iloc[start_idx + 1:end_idx]
SectionRowsOf(df, bounds) ==
    { i \in 0..(Len(df) - 1) : bounds[1] + 1 <= i /\ i < bounds[2] }

\* pd.to_numeric(cell, errors='coerce')
ToNumeric(cell) == IF cell.py = "float" THEN cell.x ELSE NaN

\* the orders in which a sort may leave rows of equal key: sort_values sorts
\* by quicksort, which does not fix it
TieOrders == {"kept", "reversed"}

\* row i is placed before row j by sort_values(ascending, na_position='last')
SortsBefore(df, i, j, ascending, tie_order) ==
    LET ki == ToNumeric(RowAt(df, i).variance)
        kj == ToNumeric(RowAt(df, j).variance)
    IN  IF IsNan(ki) \/ IsNan(kj)
        THEN IF IsNan(ki) /\ IsNan(kj) THEN i < j ELSE IsNan(kj)
        ELSE IF ki = kj
             THEN IF tie_order = "kept" THEN i < j ELSE j < i
             ELSE IF ascending THEN FLess(ki, kj) ELSE FLess(kj, ki)

\* section_df.sort_values(by=variance_col, ascending=..., na_position='last'),
\* as the sequence of the indices of the rows
SortValues(df, rows, ascending, tie_order) ==
    [p \in 1..Cardinality(rows) |->
        CHOOSE i \in rows :
            Cardinality({ j \in rows : j # i /\ SortsBefore(df, j, i, ascending, tie_order) }) = p - 1]

\* the mutation of HeadOrAll: the list is padded to n rows with its last row
HeadPadded(sorted_rows, n) ==
    IF Len(sorted_rows) >= n \/ sorted_rows = << >>
    THEN SubSeq(sorted_rows, 1, n)
    ELSE sorted_rows \o [i \in 1..(n - Len(sorted_rows)) |-> sorted_rows[Len(sorted_rows)]]

\* sorted_rows.head(n) if len(sorted_rows) >= n else sorted_rows,
\* src/analysis_engine.py:676-677
HeadOrAll(sorted_rows, n) ==
    IF Len(sorted_rows) >= n
    THEN SubSeq(sorted_rows, 1, n)
    ELSE sorted_rows

\* the body of the loop over the sections, src/analysis_engine.py:649-685:
\* the sections that get an entry in result[variance_col]
RankedSections(df, sections) ==
    { s \in DOMAIN sections :
        /\ SectionRowsOf(df, sections[s]) # {}
        /\ \E i \in SectionRowsOf(df, sections[s]) :
              ~IsNan(ToNumeric(RowAt(df, i).variance)) }

\* _get_top_bottom_rows for one variance column, src/analysis_engine.py:606-687
GetTopBottomRows(df, n, ties) ==
    IF df = << >> THEN EmptyDict
    ELSE LET sections == SectionScan(df, 0, "", -1, EmptyDict)
         IN  [s \in RankedSections(df, sections) |->
                LET rows == SectionRowsOf(df, sections[s])
                    sorted_rows_desc == SortValues(df, rows, FALSE, ties[s].top)
                    sorted_rows_asc == SortValues(df, rows, TRUE, ties[s].bottom)
                IN  [top |-> HeadOrAll(sorted_rows_desc, n),
                     bottom |-> HeadOrAll(sorted_rows_asc, n)]]

InitTopBottom ==
    /\ \E k \in 0..MaxDepartments :
         /\ all_departments = { DeptCodePool[i] : i \in 1..k }
         /\ payroll_variance \in PayrollVariances(k)
         /\ revenue_variance \in RevenueVariances(k)
    /\ all_locations \in SUBSET { LocationPool[i] : i \in DOMAIN LocationPool }
    /\ location_variance \in LocationVariances
    /\ tb_titles \in {EmptyDict} \cup
          { [c \in {"20"} |-> t] : t \in DeptTitles }
    /\ insights_df = << >>
    /\ tb_sections = EmptyDict
    /\ tb_result = EmptyDict
    /\ tb_pc = "generate"

IdleTopBottom ==
    /\ all_departments = {}
    /\ payroll_variance = << >>
    /\ revenue_variance = << >>
    /\ all_locations = {}
    /\ location_variance = << >>
    /\ tb_titles = EmptyDict
    /\ insights_df = << >>
    /\ tb_sections = EmptyDict
    /\ tb_result = EmptyDict
    /\ tb_pc = "idle"

\* _generate_insights_dataframe builds the table
CallGenerateInsightsDataframe ==
    /\ tb_pc = "generate"
    /\ insights_df' = GenerateInsightsDataframe(all_locations, all_departments,
                          tb_titles, location_variance, payroll_variance,
                          revenue_variance)
    /\ tb_pc' = "rank"
    /\ UNCHANGED <<all_departments, payroll_variance, revenue_variance,
                   all_locations, location_variance, tb_titles, tb_sections,
                   tb_result, notTopBottomVars>>

\* _log_top_bottom_insights calls _get_top_bottom_rows(df, n=3)
CallGetTopBottomRows ==
    /\ tb_pc = "rank"
    /\ \E ties \in [SectionNames -> [top : TieOrders, bottom : TieOrders]] :
         tb_result' = GetTopBottomRows(insights_df, TopBottomN, ties)
    /\ tb_sections' = SectionScan(insights_df, 0, "", -1, EmptyDict)
    /\ tb_pc' = "done"
    /\ UNCHANGED <<all_departments, payroll_variance, revenue_variance,
                   all_locations, location_variance, tb_titles, insights_df,
                   notTopBottomVars>>

-----------------------------------------------------------------------------
(* The contract-payroll rows of _process_payroll,
   src/analysis_engine.py:174-224.  A string is a tuple of characters; a
   punch time is a number of seconds. *)

\* str(cell) of a cell that is a string or a NaN
PyStr(cell) == IF cell.py = "str" THEN cell.s ELSE <<"n", "a", "n">>

\* DataUtils.trim_dept_code, src/utils.py:49-53
TrimDeptCode(code) == IF code = PyNone THEN << >> ELSE StrStrip(PyStr(code))

\* pd.notna(cell)
NotNa(cell) == cell # PyNone /\ ~(cell.py = "float" /\ IsNan(cell.x))

\* a punch time, and a text that holds one
Timestamp(t) == [py |-> "datetime", t |-> t]
TimeText(t) == [py |-> "timestr", t |-> t]

\* pd.to_datetime(cell) of a cell that is not null: a text that holds no
\* time is a ValueError
ToDatetime(cell) ==
    IF cell.py \in {"datetime", "timestr"} THEN Returned(Timestamp(cell.t))
    ELSE Raised("ValueError")

\* DataUtils.normalize_value of a value whose conversion does not overflow
Normalized(value) == NormalizeValue(value).value

\* working_hours, src/analysis_engine.py:195-205
WorkingHours(start, end) ==
    IF NotNa(start) /\ NotNa(end)
    THEN LET start_time == ToDatetime(start)
             end_time == ToDatetime(end)
         IN  IF start_time.kind = "raise" \/ end_time.kind = "raise"
             THEN Zero
             ELSE LET seconds_diff == end_time.value.t - start_time.value.t
                      hours == Rat(seconds_diff, 3600)
                  IN  Normalized(FloatCell(IF FLess(Zero, hours) THEN hours ELSE Zero))
    ELSE Zero

\* the mutation of Wage: the hours column is never used
WageFromPunchTimes(hours_from_col, working_hours, rate, dollar_amt) ==
    Normalized(FloatCell(FAdd(FMul(working_hours, rate), dollar_amt)))

\* wage, src/analysis_engine.py:207-214
Wage(hours_from_col, working_hours, rate, dollar_amt) ==
    IF FLess(Zero, hours_from_col)
    THEN Normalized(FloatCell(FAdd(FMul(hours_from_col, rate), dollar_amt)))
    ELSE Normalized(FloatCell(FAdd(FMul(working_hours, rate), dollar_amt)))

\* dict.get(key, default)
DictGet(dict, key, default) == IF key \in DOMAIN dict THEN dict[key] ELSE default

\* what the loop over the contract rows has built: calculated_wages,
\* contract_rows_by_dept, the department set, the title map, and the writes
\* made to the title map, in order
NoContractRows(departments, titles, writes) ==
    [calculated_wages |-> EmptyDict, contract_rows_by_dept |-> EmptyDict,
     all_departments |-> departments, department_to_title |-> titles,
     title_writes |-> writes]

\* the mutation of TitleFromPayroll: the title of a row replaces the one held
TitleFromPayrollUnguarded(titles, has_title_col, dept_code, title) ==
    has_title_col /\ NotNa(title)

\* the row sets the title of its department, src/analysis_engine.py:188
TitleFromPayroll(titles, has_title_col, dept_code, title) ==
    has_title_col /\ NotNa(title) /\ dept_code \notin DOMAIN titles

\* the body of the loop over the contract rows, src/analysis_engine.py:184-224
ContractRow(acc, row, cols) ==
    LET dept_code == TrimDeptCode(row.code)
    IN  IF dept_code = << >> THEN acc
        ELSE
        LET sets_title == TitleFromPayroll(acc.department_to_title, cols.title,
                                           dept_code, row.title)
            title == StrStrip(PyStr(row.title))
            rate == Normalized(row.rate)
            hours_from_col == IF cols.hours THEN Normalized(row.hours) ELSE Zero
            dollar_amt == IF cols.dollar THEN Normalized(row.dollar) ELSE Zero
            working_hours == WorkingHours(row.start, row.end)
            wage == Wage(hours_from_col, working_hours, rate, dollar_amt)
            logged == [start |-> row.start, end |-> row.end, rate |-> rate,
                       w_hrs |-> working_hours, h_col |-> hours_from_col,
                       d_amt |-> dollar_amt, wage |-> wage]
        IN  [calculated_wages |->
                DictSet(acc.calculated_wages, dept_code,
                        Normalized(FloatCell(
                            FAdd(DictGet(acc.calculated_wages, dept_code, Zero), wage)))),
             contract_rows_by_dept |->
                DictSet(acc.contract_rows_by_dept, dept_code,
                        Append(DictGet(acc.contract_rows_by_dept, dept_code, << >>),
                               logged)),
             all_departments |-> acc.all_departments \cup {dept_code},
             department_to_title |->
                IF sets_title
                THEN DictSet(acc.department_to_title, dept_code, title)
                ELSE acc.department_to_title,
             title_writes |->
                IF sets_title
                THEN Append(acc.title_writes, <<dept_code, title>>)
                ELSE acc.title_writes]

\* at most MaxContractRows rows are in the contract table that is followed
\* row by row
MaxContractRows == 2

ContractRow0 ==
    [code |-> StrCell(<<"A">>), title |-> PyNone,
     start |-> Timestamp(9 * 3600), end |-> Timestamp(17 * 3600),
     rate |-> PyFlt(25), hours |-> PyNone, dollar |-> PyFlt(0)]

\* the rows drawn: every combination of a code, punch times, an hours cell
\* and a dollar amount at rate 25, and the rows that differ from ContractRow0
\* in one cell; the punch times are 09:00 to 10:30, 17:00 to 09:00, and a
\* missing end
ContractRows ==
    LET ContractCodes ==
            { StrCell(<<"A">>), StrCell(<<" ", "A", " ">>), StrCell(<<"B">>) }
        PunchTimes ==
            { [start |-> Timestamp(9 * 3600), end |-> TimeText(10 * 3600 + 1800)],
              [start |-> Timestamp(17 * 3600), end |-> Timestamp(9 * 3600)],
              [start |-> Timestamp(9 * 3600), end |-> PyNone] }
    IN
    { [ContractRow0 EXCEPT !.code = c, !.start = p.start, !.end = p.end,
                           !.hours = h, !.dollar = a] :
         c \in ContractCodes, p \in PunchTimes,
         h \in {PyNone, PyFlt(6)}, a \in {PyFlt(0), PyFlt(10)} }
    \cup { [ContractRow0 EXCEPT !.code = c] : c \in {PyNone, StrCell(<<" ">>)} }
    \cup { [ContractRow0 EXCEPT !.rate = r] :
             r \in {StrCell(<<"a", "b", "c">>), FloatCell(NaN), PyNone} }
    \cup { [ContractRow0 EXCEPT !.hours = h] : h \in {PyFlt(-2), FloatCell(PosInf)} }
    \cup { [ContractRow0 EXCEPT !.start = StrCell(<<"x">>)] }
    \cup { [ContractRow0 EXCEPT !.rate = [py |-> "hugeint", sign |-> 1]] }

\* the exception that processing a row raises, PyNone when it raises none:
\* a row without a department code is left before any other cell is read
\* (line 185); row[rate_col] (line 191) and row[start_col], row[end_col]
\* (line 196) are read outside any try, and so is normalize_value
ContractRowRaises(row, cols) ==
    IF TrimDeptCode(row.code) = << >> THEN PyNone
    ELSE IF ~cols.rate THEN [exc |-> "KeyError", line |-> 191]
    ELSE IF NormalizeValue(row.rate).kind = "raise"
    THEN [exc |-> NormalizeValue(row.rate).exc, line |-> 191]
    ELSE IF ~cols.start \/ ~cols.end THEN [exc |-> "KeyError", line |-> 196]
    ELSE PyNone

\* the columns get_col finds in dataframe_payroll (lines 175-181): all of
\* start, end and rate, or all but one of them
ContractColumns ==
    { c \in [title : {FALSE}, hours : BOOLEAN, dollar : BOOLEAN,
             rate : BOOLEAN, start : BOOLEAN, end : BOOLEAN] :
        Cardinality({ f \in {"rate", "start", "end"} : ~c[f] }) <= 1 }

InitContract ==
    /\ payroll_cols \in ContractColumns
    /\ payroll_rows = << >>
    /\ payroll_acc = NoContractRows({}, EmptyDict, << >>)
    /\ payroll_raised = PyNone

IdleContract ==
    /\ payroll_cols = [title |-> FALSE, hours |-> FALSE, dollar |-> FALSE,
                       rate |-> TRUE, start |-> TRUE, end |-> TRUE]
    /\ payroll_rows = <<PyNone>>
    /\ payroll_acc = NoContractRows({}, EmptyDict, << >>)
    /\ payroll_raised = PyNone

\* one pass of the loop over the rows of dataframe_payroll: a column that the
\* table does not have holds nothing in the row
\* a row whose processing raises ends the loop, and the call
ProcessContractRow ==
    /\ payroll_rows # <<PyNone>>
    /\ payroll_raised = PyNone
    /\ Len(payroll_rows) < MaxContractRows
    /\ \E row \in ContractRows :
         /\ payroll_cols.hours \/ row.hours = PyNone
         /\ payroll_cols.dollar \/ row.dollar = PyFlt(0)
         /\ IF ContractRowRaises(row, payroll_cols) = PyNone
            THEN /\ payroll_rows' = Append(payroll_rows, row)
                 /\ payroll_acc' = ContractRow(payroll_acc, row, payroll_cols)
                 /\ payroll_raised' = payroll_raised
            ELSE /\ payroll_raised' =
                      [exception |-> ContractRowRaises(row, payroll_cols),
                       row |-> row]
                 /\ UNCHANGED <<payroll_rows, payroll_acc>>
    /\ UNCHANGED <<payroll_cols, notContractVars>>

-----------------------------------------------------------------------------
(* The aggregation of one run, src/analysis_engine.py:1314-1322: revenue for
   every range, then payroll for every range, then budget.  A table is a
   record of the optional columns it has and of its rows. *)

\* the keys of get_all_ranges, in order, src/utils.py:142-152
range_names_ordered ==
    << "For The Day (Actual)", "For The Day (Prior Year)",
       "For The Week Ending (Actual)", "For The Week Ending (Prior Year)",
       "Week Total (Prior Year)",
       "Month to Date (Actual)", "Month to Date (Prior Year)",
       "For Winter Ending (Actual)", "For Winter Ending (Prior Year)" >>

\* actual_range_names, src/analysis_engine.py:1243 and 449
actual_range_names ==
    << "For The Day (Actual)", "For The Week Ending (Actual)",
       "Month to Date (Actual)", "For Winter Ending (Actual)" >>

\* s < t on strings; the order of characters is blank, then capitals, then
\* small letters
RECURSIVE StrLess(_, _)
StrLess(s, t) ==
    LET CharOrder == <<" ">> \o UpperCase \o LowerCase
        CharRank(c) == CHOOSE i \in DOMAIN CharOrder : CharOrder[i] = c
    IN  IF t = << >> THEN FALSE
        ELSE IF s = << >> THEN TRUE
        ELSE IF s[1] = t[1] THEN StrLess(Tail(s), Tail(t))
        ELSE CharRank(s[1]) < CharRank(t[1])

\* sorted(keys) of a set of strings
SortedStrings(keys) ==
    [p \in 1..Cardinality(keys) |->
        CHOOSE k \in keys : Cardinality({ j \in keys : StrLess(j, k) }) = p - 1]

EmptyTable == [cols |-> [title |-> FALSE, hours |-> FALSE, dollar |-> FALSE],
               rows |-> << >>]

\* dataframe.empty
IsEmpty(table) == table.rows = << >>

\* the maps a run builds as it goes: the department set, the title map and
\* the writes made to the title map, in order
SetTitle(shared, dept_code, title) ==
    [shared EXCEPT !.department_to_title = DictSet(@, dept_code, title),
                   !.title_writes = Append(@, <<dept_code, title>>)]

\* the loop over the rows that registers titles, src/analysis_engine.py:85-89
RECURSIVE RevenueTitles(_, _, _)
RevenueTitles(rows, has_title_col, shared) ==
    IF rows = << >> THEN shared
    ELSE LET row == Head(rows)
             dept_code == TrimDeptCode(row.code)
         IN  RevenueTitles(Tail(rows), has_title_col,
                IF /\ dept_code # << >>
                   /\ has_title_col
                   /\ NotNa(row.title)
                   /\ dept_code \notin DOMAIN shared.department_to_title
                THEN SetTitle(shared, dept_code, StrStrip(PyStr(row.title)))
                ELSE shared)

\* Series.sum() of the revenue cells of the rows of one raw code: nulls are
\* skipped
RECURSIVE GroupSum(_, _)
GroupSum(rows, code) ==
    IF rows = << >> THEN Zero
    ELSE LET row == Head(rows)
         IN  IF row.code = code /\ NotNa(row.revenue)
             THEN FAdd(row.revenue.x, GroupSum(Tail(rows), code))
             ELSE GroupSum(Tail(rows), code)

\* the keys of dataframe.groupby(code_col): the raw codes that are not null,
\* in sorted order
GroupKeys(rows) ==
    SortedStrings({ rows[i].code.s : i \in { j \in DOMAIN rows : NotNa(rows[j].code) } })

\* the loop over the groups when it leaves the department set as it is
RECURSIVE RevenueGroupsUnshared(_, _, _)
RevenueGroupsUnshared(keys, rows, out) ==
    IF keys = << >> THEN out
    ELSE LET dept_str == StrStrip(Head(keys))
             value == GroupSum(rows, StrCell(Head(keys)))
         IN  RevenueGroupsUnshared(Tail(keys), rows,
                [processed_revenue |->
                    DictSet(out.processed_revenue, dept_str,
                            Normalized(FloatCell(value))),
                 shared |->
                    IF dept_str \notin DOMAIN out.shared.department_to_title
                    THEN SetTitle(out.shared, dept_str, dept_str)
                    ELSE out.shared])

\* the loop over the groups, src/analysis_engine.py:91-96
RECURSIVE RevenueGroups(_, _, _)
RevenueGroups(keys, rows, out) ==
    IF keys = << >> THEN out
    ELSE LET dept_str == StrStrip(Head(keys))
             value == GroupSum(rows, StrCell(Head(keys)))
             added == [out.shared EXCEPT !.all_departments = @ \cup {dept_str}]
         IN  RevenueGroups(Tail(keys), rows,
                [processed_revenue |->
                    DictSet(out.processed_revenue, dept_str,
                            Normalized(FloatCell(value))),
                 shared |->
                    IF dept_str \notin DOMAIN added.department_to_title
                    THEN SetTitle(added, dept_str, dept_str)
                    ELSE added])

\* _process_revenue_dataframe, src/analysis_engine.py:70-97
ProcessRevenueDataframe(table, shared) ==
    IF IsEmpty(table) THEN [processed_revenue |-> EmptyDict, shared |-> shared]
    ELSE RevenueGroups(GroupKeys(table.rows), table.rows,
            [processed_revenue |-> EmptyDict,
             shared |-> RevenueTitles(table.rows, table.cols.title, shared)])

\* processed_revenue[range_name], src/analysis_engine.py:111-113
RevenueOfRange(out, range_name, done) ==
    [processed_revenue |->
        DictSet(out.processed_revenue, range_name, done.processed_revenue),
     shared |-> done.shared]

\* _process_revenue, src/analysis_engine.py:99-151: the loop over the ranges
RECURSIVE ProcessRevenue(_, _, _)
ProcessRevenue(names, store, out) ==
    IF names = << >> THEN out
    ELSE ProcessRevenue(Tail(names), store,
            RevenueOfRange(out, Head(names),
                ProcessRevenueDataframe(store[Head(names)].revenue, out.shared)))

\* the loop over the contract rows, src/analysis_engine.py:183-224
RECURSIVE ContractTable(_, _, _)
ContractTable(rows, cols, acc) ==
    IF rows = << >> THEN acc
    ELSE ContractTable(Tail(rows), cols, ContractRow(acc, Head(rows), cols))

\* the loop over the history rows when a row adds to the total of its
\* department
RECURSIVE HistoryRowsSummed(_, _)
HistoryRowsSummed(rows, history_totals) ==
    IF rows = << >> THEN history_totals
    ELSE LET dept == TrimDeptCode(Head(rows).code)
         IN  HistoryRowsSummed(Tail(rows),
                IF dept # << >>
                THEN DictSet(history_totals, dept,
                             FAdd(DictGet(history_totals, dept, Zero),
                                  Normalized(Head(rows).total)))
                ELSE history_totals)

\* the loop over the history rows, src/analysis_engine.py:234-236
RECURSIVE HistoryRows(_, _)
HistoryRows(rows, history_totals) ==
    IF rows = << >> THEN history_totals
    ELSE LET dept == TrimDeptCode(Head(rows).code)
         IN  HistoryRows(Tail(rows),
                IF dept # << >>
                THEN DictSet(history_totals, dept, Normalized(Head(rows).total))
                ELSE history_totals)

\* the loop over the salary rows, src/analysis_engine.py:242-247
RECURSIVE SalaryRows(_, _, _)
SalaryRows(rows, has_title_col, out) ==
    IF rows = << >> THEN out
    ELSE LET row == Head(rows)
             dept == TrimDeptCode(row.code)
         IN  SalaryRows(Tail(rows), has_title_col,
                IF dept = << >> THEN out
                ELSE [salary_totals |->
                         DictSet(out.salary_totals, dept, Normalized(row.total)),
                      shared |->
                         IF TitleFromPayroll(out.shared.department_to_title,
                                             has_title_col, dept, row.title)
                         THEN SetTitle(out.shared, dept, StrStrip(PyStr(row.title)))
                         ELSE out.shared])

\* the mutation of FinalWage: contract and salary are paid in every range
FinalWageAlwaysContract(range_name, actual_ranges, contract_total, salary_total, history_total) ==
    Normalized(FloatCell(FAdd(contract_total, salary_total)))

\* final_wage, src/analysis_engine.py:263-272
FinalWage(range_name, actual_ranges, contract_total, salary_total, history_total) ==
    IF \E i \in DOMAIN actual_ranges : actual_ranges[i] = range_name
    THEN Normalized(FloatCell(FAdd(contract_total, salary_total)))
    ELSE history_total

\* the mutation of CurrentDatePayroll: the revenue of the range is copied
CurrentDatePayrollCopied(revenue) == revenue

\* the payroll of a range in a current-date run, src/analysis_engine.py:164-165
CurrentDatePayroll(revenue) == [dept_code \in DOMAIN revenue |-> Zero]

\* the contract payroll of a range, src/analysis_engine.py:168-224
ContractPayroll(dataframe_payroll, shared) ==
    IF IsEmpty(dataframe_payroll)
    THEN NoContractRows(shared.all_departments, shared.department_to_title,
                        shared.title_writes)
    ELSE ContractTable(dataframe_payroll.rows, dataframe_payroll.cols,
            NoContractRows(shared.all_departments, shared.department_to_title,
                           shared.title_writes))

\* the department set and the title map as the contract rows leave them
SharedAfterContract(contract) ==
    [all_departments |-> contract.all_departments,
     department_to_title |-> contract.department_to_title,
     title_writes |-> contract.title_writes]

\* the loop over the relevant departments, src/analysis_engine.py:249-279
RelevantDepartments(range_name, actual_ranges, calculated_wages, history_totals, salary) ==
    LET relevant_depts ==
            DOMAIN calculated_wages \cup DOMAIN salary.salary_totals
                \cup DOMAIN history_totals
    IN  [processed_payroll |->
            [dept_code \in relevant_depts |->
                FinalWage(range_name, actual_ranges,
                    Normalized(FloatCell(DictGet(calculated_wages, dept_code, Zero))),
                    Normalized(FloatCell(DictGet(salary.salary_totals, dept_code, Zero))),
                    Normalized(FloatCell(DictGet(history_totals, dept_code, Zero))))],
         calculated_wages |-> calculated_wages,
         salary_totals |-> salary.salary_totals,
         history_totals |-> history_totals,
         shared |-> [salary.shared EXCEPT
                        !.all_departments = @ \cup relevant_depts]]

\* the part of the loop body that follows the contract rows,
\* src/analysis_engine.py:226-279
AfterContractRows(range_name, tables, actual_ranges, contract) ==
    RelevantDepartments(range_name, actual_ranges, contract.calculated_wages,
        IF IsEmpty(tables.payroll_history) THEN EmptyDict
        ELSE HistoryRows(tables.payroll_history.rows, EmptyDict),
        IF IsEmpty(tables.salary_payroll)
        THEN [salary_totals |-> EmptyDict, shared |-> SharedAfterContract(contract)]
        ELSE SalaryRows(tables.salary_payroll.rows, tables.salary_payroll.cols.title,
                        [salary_totals |-> EmptyDict,
                         shared |-> SharedAfterContract(contract)]))

\* one pass of the loop of _process_payroll over the ranges,
\* src/analysis_engine.py:159-279
ProcessPayrollRange(range_name, tables, is_current_run, actual_ranges, revenue, shared) ==
    IF is_current_run
    THEN [processed_payroll |-> CurrentDatePayroll(revenue),
          calculated_wages |-> EmptyDict, salary_totals |-> EmptyDict,
          history_totals |-> EmptyDict,
          shared |-> [shared EXCEPT !.all_departments = @ \cup DOMAIN revenue]]
    ELSE AfterContractRows(range_name, tables, actual_ranges,
                           ContractPayroll(tables.payroll, shared))

\* processed_payroll[range_name] and the totals of the range, as one pass of
\* the loop leaves them
PayrollOfRange(out, range_name, done) ==
    [processed_payroll |-> DictSet(out.processed_payroll, range_name, done.processed_payroll),
     calculated_wages |-> DictSet(out.calculated_wages, range_name, done.calculated_wages),
     salary_totals |-> DictSet(out.salary_totals, range_name, done.salary_totals),
     history_totals |-> DictSet(out.history_totals, range_name, done.history_totals),
     shared |-> done.shared]

\* _process_payroll, src/analysis_engine.py:153-286: the loop over the ranges
RECURSIVE ProcessPayroll(_, _, _, _, _, _)
ProcessPayroll(names, store, is_current_run, actual_ranges, revenue, out) ==
    IF names = << >> THEN out
    ELSE ProcessPayroll(Tail(names), store, is_current_run, actual_ranges, revenue,
            PayrollOfRange(out, Head(names),
                ProcessPayrollRange(Head(names), store[Head(names)], is_current_run,
                    actual_ranges, revenue[Head(names)], out.shared)))

\* the department codes whose budget rows of type visits are visits budgets,
\* and the location each stands for
VISITS_DEPT_CODE_MAPPING == [dept_code \in {<<"V">>} |-> <<"l","o","d","g","e">>]

\* the body of the loop when a type is tested for revenue before payroll
BudgetRowRevenueFirst(out, row, has_title_col, visits_mapping) ==
    LET dept_code == TrimDeptCode(row.code)
        amount == Normalized(row.amount)
        budget_type == IF NotNa(row.type)
                       THEN StrLower(StrStrip(PyStr(row.type))) ELSE << >>
        entry == DictGet(out.financial, dept_code,
                         [Payroll |-> Zero, Revenue |-> Zero])
    IN  IF dept_code = << >> THEN out
        ELSE IF StrContains(budget_type, <<"v","i","s","i","t","s">>)
        THEN IF dept_code \in DOMAIN visits_mapping
             THEN [out EXCEPT !.visits = DictSet(@, visits_mapping[dept_code], amount)]
             ELSE out
        ELSE [financial |->
                 DictSet(out.financial, dept_code,
                    IF StrContains(budget_type, <<"r","e","v","e","n","u","e">>)
                    THEN [entry EXCEPT !.Revenue = amount]
                    ELSE IF StrContains(budget_type, <<"p","a","y","r","o","l","l">>)
                    THEN [entry EXCEPT !.Payroll = amount]
                    ELSE entry),
              visits |-> out.visits,
              shared |->
                 IF /\ has_title_col
                    /\ NotNa(row.title)
                    /\ dept_code \notin DOMAIN out.shared.department_to_title
                 THEN SetTitle(out.shared, dept_code, StrStrip(PyStr(row.title)))
                 ELSE out.shared]

\* the body of the loop over the budget rows of a range,
\* src/analysis_engine.py:460-478
BudgetRow(out, row, has_title_col, visits_mapping) ==
    LET dept_code == TrimDeptCode(row.code)
        amount == Normalized(row.amount)
        budget_type == IF NotNa(row.type)
                       THEN StrLower(StrStrip(PyStr(row.type))) ELSE << >>
        entry == DictGet(out.financial, dept_code,
                         [Payroll |-> Zero, Revenue |-> Zero])
    IN  IF dept_code = << >> THEN out
        ELSE IF StrContains(budget_type, <<"v","i","s","i","t","s">>)
        THEN IF dept_code \in DOMAIN visits_mapping
             THEN [out EXCEPT !.visits = DictSet(@, visits_mapping[dept_code], amount)]
             ELSE out
        ELSE [financial |->
                 DictSet(out.financial, dept_code,
                    IF StrContains(budget_type, <<"p","a","y","r","o","l","l">>)
                    THEN [entry EXCEPT !.Payroll = amount]
                    ELSE IF StrContains(budget_type, <<"r","e","v","e","n","u","e">>)
                    THEN [entry EXCEPT !.Revenue = amount]
                    ELSE entry),
              visits |-> out.visits,
              shared |->
                 IF /\ has_title_col
                    /\ NotNa(row.title)
                    /\ dept_code \notin DOMAIN out.shared.department_to_title
                 THEN SetTitle(out.shared, dept_code, StrStrip(PyStr(row.title)))
                 ELSE out.shared]

RECURSIVE BudgetRows(_, _, _, _)
BudgetRows(rows, has_title_col, visits_mapping, out) ==
    IF rows = << >> THEN out
    ELSE BudgetRows(Tail(rows), has_title_col, visits_mapping,
                    BudgetRow(out, Head(rows), has_title_col, visits_mapping))

\* the budgets of one range, src/analysis_engine.py:456-478
ProcessBudgetRange(dataframe, visits_mapping, shared) ==
    IF IsEmpty(dataframe)
    THEN [financial |-> EmptyDict, visits |-> EmptyDict, shared |-> shared]
    ELSE BudgetRows(dataframe.rows, dataframe.cols.title, visits_mapping,
            [financial |-> EmptyDict, visits |-> EmptyDict, shared |-> shared])

\* the budgets of a range, as one pass of the loop leaves them
BudgetOfRange(out, range_name, done) ==
    [processed_financial_budget |->
        DictSet(out.processed_financial_budget, range_name, done.financial),
     processed_visits_budget |->
        DictSet(out.processed_visits_budget, range_name, done.visits),
     shared |-> done.shared]

\* _process_budget, src/analysis_engine.py:446-479: the loop over the Actual
\* ranges
RECURSIVE ProcessBudget(_, _, _, _)
ProcessBudget(names, store, visits_mapping, out) ==
    IF names = << >> THEN out
    ELSE ProcessBudget(Tail(names), store, visits_mapping,
            BudgetOfRange(out, Head(names),
                ProcessBudgetRange(
                    IF Head(names) = "For The Week Ending (Actual)"
                    THEN store[Head(names)].budget_week_total
                    ELSE store[Head(names)].budget,
                                   visits_mapping, out.shared)))

\* {name: {} for name in range_names}
EmptyByRange == [name \in RangeNames |-> EmptyDict]

\* the tables a run is given: for each kind of table, the tables one range
\* may hold. Department codes and titles are as the tables hold them, padded
\* or not; other_revenue is the revenue table of a second range
RunTables ==
    LET
        CodeA == StrCell(<<"A">>)
        CodeAPadded == StrCell(<<" ", "A", " ">>)
        CodeB == StrCell(<<"B">>)
        CodeC == StrCell(<<"C">>)
        CodeV == StrCell(<<"V">>)
        CodeBlank == StrCell(<<" ">>)
        TitleSki == StrCell(<<" ", "S", "k", "i">>)
        TitleRent == StrCell(<<"R", "e", "n", "t">>)
        TitleLift == StrCell(<<"L", "i", "f", "t">>)
        TitleEmpty == StrCell(<< >>)
        WithTitles == [title |-> TRUE, hours |-> FALSE, dollar |-> FALSE]
        WithoutTitles == [title |-> FALSE, hours |-> FALSE, dollar |-> FALSE]
        TypePayroll == StrCell(<<"P","a","y","r","o","l","l">>)
        TypeRevenue == StrCell(<<" ","R","E","V","E","N","U","E"," ">>)
        TypeVisits == StrCell(<<"V","i","s","i","t","s">>)
        TypeVisitsPayroll ==
            StrCell(<<"P","a","y","r","o","l","l"," ","V","i","s","i","t","s">>)
        TypePayrollRevenue ==
            StrCell(<<"R","e","v","e","n","u","e","/","P","a","y","r","o","l","l">>)
        RevenueRow(code, title, revenue) ==
            [code |-> code, title |-> title, revenue |-> revenue]
        PayrollRow(code, title) == [ContractRow0 EXCEPT !.code = code, !.title = title]
        SalaryRow(code, title, total) == [code |-> code, title |-> title, total |-> total]
        HistoryRow(code, total) == [code |-> code, total |-> total]
        BudgetRowOf(code, type, amount, title) ==
            [code |-> code, type |-> type, amount |-> amount, title |-> title]
    IN
    [
      revenue |->
           { EmptyTable,
             [cols |-> WithTitles, rows |-> <<RevenueRow(CodeA, TitleSki, PyFlt(100))>>],
             [cols |-> WithoutTitles, rows |-> <<RevenueRow(CodeA, PyNone, PyFlt(100))>>],
             [cols |-> WithTitles,
              rows |-> <<RevenueRow(CodeA, PyNone, PyFlt(100)),
                         RevenueRow(CodeAPadded, TitleRent, PyFlt(40)),
                         RevenueRow(CodeA, TitleSki, FloatCell(NaN))>>],
             [cols |-> WithTitles,
              rows |-> <<RevenueRow(CodeBlank, TitleSki, PyFlt(5)),
                         RevenueRow(PyNone, TitleSki, PyFlt(6)),
                         RevenueRow(CodeB, TitleEmpty, PyFlt(7))>>] },
      other_revenue |->
           { EmptyTable,
             [cols |-> WithTitles, rows |-> <<RevenueRow(CodeA, TitleLift, PyFlt(9))>>] },
      payroll |->
           { EmptyTable,
             [cols |-> WithTitles,
              rows |-> <<PayrollRow(CodeA, PyNone), PayrollRow(CodeAPadded, TitleSki),
                         PayrollRow(CodeA, TitleRent)>>],
             [cols |-> WithTitles,
              rows |-> <<PayrollRow(CodeB, TitleEmpty), PayrollRow(CodeBlank, TitleSki),
                         PayrollRow(CodeB, TitleLift)>>],
             [cols |-> WithoutTitles, rows |-> <<PayrollRow(CodeA, PyNone)>>] },
      salary_payroll |->
           { EmptyTable,
             [cols |-> WithTitles,
              rows |-> <<SalaryRow(CodeA, PyNone, PyFlt(300)),
                         SalaryRow(CodeC, TitleSki, PyFlt(50)),
                         SalaryRow(CodeC, TitleRent, PyFlt(60))>>],
             [cols |-> WithoutTitles, rows |-> <<SalaryRow(CodeB, PyNone, FloatCell(NaN))>>] },
      payroll_history |->
           { EmptyTable,
             [cols |-> WithoutTitles,
              rows |-> <<HistoryRow(CodeA, PyFlt(70)), HistoryRow(CodeBlank, PyFlt(1)),
                         HistoryRow(CodeC, PyFlt(9))>>],
             [cols |-> WithoutTitles,
              rows |-> <<HistoryRow(CodeA, PyFlt(70)),
                         HistoryRow(CodeAPadded, PyFlt(20))>>] },
      budget |->
           { EmptyTable,
             [cols |-> WithTitles,
              rows |-> <<BudgetRowOf(CodeB, TypeRevenue, PyFlt(5), PyNone),
                         BudgetRowOf(CodeB, TypePayroll, PyFlt(7), TitleSki),
                         BudgetRowOf(CodeB, PyNone, PyFlt(8), TitleRent)>>],
             [cols |-> WithTitles,
              rows |-> <<BudgetRowOf(CodeV, TypeVisits, PyFlt(3), TitleSki),
                         BudgetRowOf(CodeAPadded, TypeRevenue, PyFlt(4), TitleEmpty)>>],
             [cols |-> WithoutTitles,
              rows |-> <<BudgetRowOf(CodeV, TypeVisitsPayroll, PyFlt(2), PyNone),
                         BudgetRowOf(CodeB, TypePayrollRevenue, PyFlt(7), PyNone),
                         BudgetRowOf(CodeC, TypeVisits, PyFlt(9), PyNone),
                         BudgetRowOf(CodeB, TypeRevenue, PyFlt(5), PyNone)>>],
             [cols |-> WithoutTitles,
              rows |-> <<BudgetRowOf(CodeB, TypePayroll, PyFlt(7), PyNone),
                         BudgetRowOf(CodeB, TypeRevenue, PyFlt(5), PyNone),
                         BudgetRowOf(CodeB, TypePayroll, PyFlt(9), PyNone),
                         BudgetRowOf(CodeB, TypeRevenue, PyFlt(6), PyNone)>>] }
    ]

\* a data_store with the tables of one range, the revenue of a second one
\* (the last range, or the first when the first is the last), the budget in
\* the range itself when it is an Actual range and in For The Day (Actual)
\* when it is not, and nothing (empty tables) elsewhere
DataStore(focus, revenue, payroll, salary_payroll, payroll_history, budget, other_revenue) ==
    LET other_range ==
            IF focus = range_names_ordered[Len(range_names_ordered)]
            THEN range_names_ordered[1]
            ELSE range_names_ordered[Len(range_names_ordered)]
        budget_range ==
            IF \E i \in DOMAIN actual_range_names : actual_range_names[i] = focus
            THEN focus
            ELSE actual_range_names[1]
    IN
    [name \in RangeNames |->
        [revenue |-> IF name = focus THEN revenue
                     ELSE IF name = other_range THEN other_revenue
                     ELSE EmptyTable,
         payroll |-> IF name = focus THEN payroll ELSE EmptyTable,
         salary_payroll |-> IF name = focus THEN salary_payroll ELSE EmptyTable,
         payroll_history |-> IF name = focus THEN payroll_history ELSE EmptyTable,
         budget |-> IF name = budget_range
                       /\ name # "For The Week Ending (Actual)"
                    THEN budget ELSE EmptyTable,
         budget_week_total |-> IF name = budget_range
                                  /\ name = "For The Week Ending (Actual)"
                               THEN budget ELSE EmptyTable]]

Shared ==
    [all_departments |-> departments_set,
     department_to_title |-> code_to_title_map,
     title_writes |-> title_writes]

InitRun ==
    /\ is_current \in BOOLEAN
    /\ \E focus \in RangeNames, revenue \in RunTables.revenue,
          payroll \in RunTables.payroll,
          salary_payroll \in RunTables.salary_payroll,
          payroll_history \in RunTables.payroll_history,
          budget \in RunTables.budget,
          other_revenue \in RunTables.other_revenue :
         data_store = DataStore(focus, revenue, payroll, salary_payroll,
                                payroll_history, budget, other_revenue)
    /\ run_pc = "revenue"
    /\ processed_revenue = EmptyByRange
    /\ processed_payroll = EmptyByRange
    /\ processed_financial_budget = EmptyByRange
    /\ processed_visits_budget = EmptyByRange
    /\ contract_by_range = EmptyByRange
    /\ salary_by_range = EmptyByRange
    /\ history_by_range = EmptyByRange
    /\ departments_set = {}
    /\ code_to_title_map = EmptyDict
    /\ title_writes = << >>

IdleRun ==
    /\ is_current = FALSE
    /\ data_store = EmptyDict
    /\ run_pc = "idle"
    /\ processed_revenue = EmptyByRange
    /\ processed_payroll = EmptyByRange
    /\ processed_financial_budget = EmptyByRange
    /\ processed_visits_budget = EmptyByRange
    /\ contract_by_range = EmptyByRange
    /\ salary_by_range = EmptyByRange
    /\ history_by_range = EmptyByRange
    /\ departments_set = {}
    /\ code_to_title_map = EmptyDict
    /\ title_writes = << >>

\* the maps of the run take what an aggregator call left in them
SharedBecomes(shared) ==
    /\ departments_set' = shared.all_departments
    /\ code_to_title_map' = shared.department_to_title
    /\ title_writes' = shared.title_writes

RevenueReturns(out) ==
    /\ processed_revenue' = out.processed_revenue
    /\ SharedBecomes(out.shared)

\* processed_revenue = self._process_revenue(...), src/analysis_engine.py:1317
CallProcessRevenue ==
    /\ run_pc = "revenue"
    /\ RevenueReturns(ProcessRevenue(range_names_ordered, data_store,
            [processed_revenue |-> EmptyByRange, shared |-> Shared]))
    /\ run_pc' = "payroll"
    /\ UNCHANGED <<is_current, data_store, processed_payroll,
                   processed_financial_budget, processed_visits_budget,
                   contract_by_range, salary_by_range, history_by_range, notRunVars>>

PayrollReturns(out) ==
    /\ processed_payroll' = out.processed_payroll
    /\ contract_by_range' = out.calculated_wages
    /\ salary_by_range' = out.salary_totals
    /\ history_by_range' = out.history_totals
    /\ SharedBecomes(out.shared)

\* processed_payroll = self._process_payroll(...), src/analysis_engine.py:1318
CallProcessPayroll ==
    /\ run_pc = "payroll"
    /\ PayrollReturns(ProcessPayroll(range_names_ordered, data_store, is_current,
            actual_range_names, processed_revenue,
            [processed_payroll |-> EmptyByRange,
             calculated_wages |-> EmptyByRange,
             salary_totals |-> EmptyByRange,
             history_totals |-> EmptyByRange,
             shared |-> Shared]))
    /\ run_pc' = "budget"
    /\ UNCHANGED <<is_current, data_store, processed_revenue,
                   processed_financial_budget, processed_visits_budget,
                   notRunVars>>

BudgetReturns(out) ==
    /\ processed_financial_budget' = out.processed_financial_budget
    /\ processed_visits_budget' = out.processed_visits_budget
    /\ SharedBecomes(out.shared)

\* processed_budget, processed_visits_budget = self._process_budget(...),
\* src/analysis_engine.py:1321
CallProcessBudget ==
    /\ run_pc = "budget"
    /\ BudgetReturns(ProcessBudget(actual_range_names, data_store,
            VISITS_DEPT_CODE_MAPPING,
            [processed_financial_budget |-> EmptyByRange,
             processed_visits_budget |-> EmptyByRange,
             shared |-> Shared]))
    /\ run_pc' = "done"
    /\ UNCHANGED <<is_current, data_store, processed_revenue, processed_payroll,
                   contract_by_range, salary_by_range, history_by_range, notRunVars>>

-----------------------------------------------------------------------------
(* The aggregators, given tables whose required columns may not be resolved,
   src/analysis_engine.py:43-97, 231-247, 446-479.  A column is resolved when
   one of its candidate names, or the name the code falls back to, is a
   column of the table. *)

\* the categories, in the order generate_analysis aggregates them
\* (src/analysis_engine.py:1315-1322; history and salary are read by
\* _process_payroll in this order, lines 231-247)
AggregatorOrder ==
    <<"visits", "revenue", "payroll_history", "salary_payroll", "budget">>

\* some row has a department code that is not empty once trimmed
HasDeptCode(rows) == \E i \in DOMAIN rows : TrimDeptCode(rows[i].code) # << >>

\* the loop over grouped.items() of _process_visits_dataframe,
\* src/analysis_engine.py:51-58: the sum of the visits column of a location,
\* or the number of its rows when there is no visits column
RECURSIVE VisitsGroups(_, _, _, _)
VisitsGroups(keys, rows, has_visits_col, out) ==
    IF keys = << >> THEN out
    ELSE VisitsGroups(Tail(keys), rows, has_visits_col,
            DictSet(out, Head(keys),
                Normalized(
                    IF has_visits_col
                    THEN FloatCell(GroupSum(rows, StrCell(Head(keys))))
                    ELSE PyFlt(Cardinality({ i \in DOMAIN rows :
                                             rows[i].code = StrCell(Head(keys)) })))))

\* _process_visits_dataframe, src/analysis_engine.py:43-59
VisitsOfTable(table) ==
    IF IsEmpty(table) \/ ~table.cols.code THEN Returned(EmptyDict)
    ELSE Returned(VisitsGroups(GroupKeys(table.rows), table.rows,
                               table.cols.amount, EmptyDict))

\* _process_revenue_dataframe, src/analysis_engine.py:70-97: code_col and
\* revenue_col are never None (lines 77 and 79), so row[code_col] (line 85)
\* and groupby(code_col)[revenue_col] (line 90) are reached
RevenueOfTable(table) ==
    IF IsEmpty(table) THEN Returned(EmptyDict)
    ELSE IF ~table.cols.code \/ ~table.cols.amount THEN Raised("KeyError")
    ELSE Returned(ProcessRevenueDataframe(
                     [cols |-> EmptyTable.cols, rows |-> table.rows],
                     [all_departments |-> {}, department_to_title |-> EmptyDict,
                      title_writes |-> << >>]).processed_revenue)

\* history_totals of one range, src/analysis_engine.py:231-236
HistoryOfTable(table) ==
    IF IsEmpty(table) THEN Returned(EmptyDict)
    ELSE IF ~table.cols.code THEN Raised("KeyError")
    ELSE IF ~table.cols.amount /\ HasDeptCode(table.rows) THEN Raised("KeyError")
    ELSE Returned(HistoryRows(table.rows, EmptyDict))

\* salary_totals of one range, src/analysis_engine.py:238-247
SalaryOfTable(table) ==
    IF IsEmpty(table) THEN Returned(EmptyDict)
    ELSE IF ~table.cols.code THEN Raised("KeyError")
    ELSE IF ~table.cols.amount /\ HasDeptCode(table.rows) THEN Raised("KeyError")
    ELSE Returned(SalaryRows(table.rows, FALSE,
                     [salary_totals |-> EmptyDict,
                      shared |-> [all_departments |-> {},
                                  department_to_title |-> EmptyDict,
                                  title_writes |-> << >>]]).salary_totals)

\* the budget entries of one range, src/analysis_engine.py:454-478
BudgetOfTable(table) ==
    IF IsEmpty(table) \/ ~table.cols.code \/ ~table.cols.amount
    THEN Returned(EmptyDict)
    ELSE Returned(ProcessBudgetRange(
                     [cols |-> EmptyTable.cols, rows |-> table.rows],
                     VISITS_DEPT_CODE_MAPPING,
                     [all_departments |-> {}, department_to_title |-> EmptyDict,
                      title_writes |-> << >>]).financial)

\* the rows of a table of any category: the value is in the column the
\* category sums, the code in the column it groups by
AggregatorRows ==
    LET Row(code, value) ==
            [code |-> StrCell(code), title |-> PyNone,
             revenue |-> PyFlt(value), total |-> PyFlt(value),
             amount |-> PyFlt(value),
             type |-> StrCell(<<"r","e","v","e","n","u","e">>)]
    IN  { <<Row(<<"A">>, 10), Row(<<"B">>, 7), Row(<<"A">>, 5)>>,
          <<Row(<<" ">>, 3)>> }

\* every category is given a table that is not empty
InitColumns ==
    /\ \E rows \in AggregatorRows,
          cols \in [{ AggregatorOrder[i] : i \in DOMAIN AggregatorOrder } ->
                    [code : BOOLEAN, amount : BOOLEAN]] :
         agg_tables = [category \in DOMAIN cols |->
                          [cols |-> cols[category], rows |-> rows]]
    /\ agg_out = << >>

IdleColumns ==
    /\ agg_tables = EmptyDict
    /\ agg_out = <<PyNone>>

\* the aggregator of a category is called when those before it returned: an
\* exception leaves generate_analysis (src/analysis_engine.py:1430-1454)
Aggregate(category, result) ==
    /\ agg_out # <<PyNone>>
    /\ Len(agg_out) < Len(AggregatorOrder)
    /\ AggregatorOrder[Len(agg_out) + 1] = category
    /\ \A i \in DOMAIN agg_out : agg_out[i].result.kind = "return"
    /\ agg_out' = Append(agg_out, [category |-> category, result |-> result])
    /\ UNCHANGED <<agg_tables, notColumnsVars>>

AggregateVisits ==
    /\ "visits" \in DOMAIN agg_tables
    /\ Aggregate("visits", VisitsOfTable(agg_tables["visits"]))

AggregateRevenue ==
    /\ "revenue" \in DOMAIN agg_tables
    /\ Aggregate("revenue", RevenueOfTable(agg_tables["revenue"]))

AggregateHistory ==
    /\ "payroll_history" \in DOMAIN agg_tables
    /\ Aggregate("payroll_history", HistoryOfTable(agg_tables["payroll_history"]))

AggregateSalary ==
    /\ "salary_payroll" \in DOMAIN agg_tables
    /\ Aggregate("salary_payroll", SalaryOfTable(agg_tables["salary_payroll"]))

AggregateBudget ==
    /\ "budget" \in DOMAIN agg_tables
    /\ Aggregate("budget", BudgetOfTable(agg_tables["budget"]))

NextColumns ==
    \/ AggregateVisits
    \/ AggregateRevenue
    \/ AggregateHistory
    \/ AggregateSalary
    \/ AggregateBudget

-----------------------------------------------------------------------------
(* generate_analysis, src/analysis_engine.py:1190-1457: the fetch loop, the
   aggregation, the report, the insights and the except clause.  What a
   stored procedure returns and what the report holds are left out; what is
   kept is which fetches are issued, which step raises, what is posted to the
   webhooks and what the caller gets. *)

\* the fetches of one pass of the loop over the ranges when every range and
\* every run gets the payroll fetches
FetchKeysAlways(name, is_current_run) ==
    <<"revenue", "visits", "snow", "payroll", "salary_payroll", "payroll_history">>

\* the fetches of one pass of the loop over the ranges, in order,
\* src/analysis_engine.py:1252-1307
FetchKeys(name, is_current_run) ==
    <<"revenue", "visits", "snow">> \o
    (IF is_current_run THEN << >>
     ELSE IF \E i \in DOMAIN actual_range_names : actual_range_names[i] = name
     THEN <<"payroll", "salary_payroll">> \o
          (IF name = "For The Week Ending (Actual)"
           THEN <<"budget_week_total", "budget_week_to_date">>
           ELSE <<"budget">>)
     ELSE <<"payroll_history">>)

\* send_to_n8n_webhooks, src/webhook_client.py:12-56: the resort name is
\* stripped and lower-cased before anything is posted; a request that fails
\* is logged, not raised
SendToWebhooks(name, payload) ==
    IF name = PyNone THEN Raised("AttributeError")
    ELSE Returned([resort |-> name, payload |-> payload])

\* src/analysis_engine.py:1434: if resort_config_from_env
ForwardsError(from_env) == from_env

\* os.getenv('RESORT_NAME') is None when the variable is not set
\* (src/analysis_engine.py:1202-1206); a configuration passed by the caller
\* names its resort
InitGenerate ==
    /\ resort_config_from_env \in BOOLEAN
    /\ resort_name \in {StrCell(<<"S","N","O","W">>)} \cup
                       (IF resort_config_from_env THEN {PyNone} ELSE {})
    /\ ga_is_current \in BOOLEAN
    /\ analysis_type \in {"rep", "ins", "both"}
    /\ ga_pc = "connect"
    /\ ga_ranges_done = 0
    /\ ga_fetched = << >>
    /\ ga_webhooks = << >>
    /\ ga_exc = PyNone
    /\ ga_result = [report_path |-> PyNone, insights_path |-> PyNone]
    /\ ga_outcome = NotCalled

IdleGenerate ==
    /\ resort_config_from_env = FALSE
    /\ resort_name = PyNone
    /\ ga_is_current = FALSE
    /\ analysis_type = "rep"
    /\ ga_pc = "idle"
    /\ ga_ranges_done = 0
    /\ ga_fetched = << >>
    /\ ga_webhooks = << >>
    /\ ga_exc = PyNone
    /\ ga_result = [report_path |-> PyNone, insights_path |-> PyNone]
    /\ ga_outcome = NotCalled

\* an exception raised inside the try reaches the except clause
GoToExcept(exc, during) ==
    /\ ga_pc' = "except"
    /\ ga_exc' = [exc |-> exc, during |-> during]

\* with DatabaseConnection() as conn, src/analysis_engine.py:1246
Connect ==
    /\ ga_pc = "connect"
    /\ \E connected \in BOOLEAN :
         IF connected
         THEN ga_pc' = "fetch" /\ ga_exc' = ga_exc
         ELSE GoToExcept("ConnectionError", "connect")
    /\ UNCHANGED <<resort_config_from_env, resort_name, ga_is_current,
                   analysis_type, ga_ranges_done, ga_fetched, ga_webhooks,
                   ga_result, ga_outcome, notGenerateVars>>

\* one pass of the loop over the ranges, src/analysis_engine.py:1248-1312:
\* each fetch is an execute_with_retry call, which returns a table or raises
\* (failed is the fetch that raises, 0 when none does)
FetchRange ==
    /\ ga_pc = "fetch"
    /\ ga_ranges_done < Len(range_names_ordered)
    /\ LET name == range_names_ordered[ga_ranges_done + 1]
           keys == FetchKeys(name, ga_is_current)
       IN  \E failed \in 0 .. Len(keys) :
              /\ ga_fetched' = ga_fetched \o
                    [i \in 1 .. (IF failed = 0 THEN Len(keys) ELSE failed) |->
                        [range |-> name, key |-> keys[i], raised |-> i = failed]]
              /\ IF failed = 0
                 THEN /\ ga_ranges_done' = ga_ranges_done + 1
                      /\ ga_pc' = IF ga_ranges_done + 1 = Len(range_names_ordered)
                                  THEN "aggregate" ELSE "fetch"
                      /\ ga_exc' = ga_exc
                 ELSE /\ ga_ranges_done' = ga_ranges_done
                      /\ GoToExcept("OperationError", "fetch")
    /\ UNCHANGED <<resort_config_from_env, resort_name, ga_is_current,
                   analysis_type, ga_webhooks, ga_result, ga_outcome,
                   notGenerateVars>>

\* the aggregator calls, src/analysis_engine.py:1314-1331
AggregateAll ==
    /\ ga_pc = "aggregate"
    /\ \E raises \in BOOLEAN :
         IF raises
         THEN GoToExcept("KeyError", "aggregation")
         ELSE ga_pc' = "report" /\ ga_exc' = ga_exc
    /\ UNCHANGED <<resort_config_from_env, resort_name, ga_is_current,
                   analysis_type, ga_ranges_done, ga_fetched, ga_webhooks,
                   ga_result, ga_outcome, notGenerateVars>>

\* if generate_report, src/analysis_engine.py:1333-1399: the report is posted
\* to the webhooks when the configuration came from the environment, and
\* written to a file when it did not
BuildReport ==
    /\ ga_pc = "report"
    /\ IF analysis_type \notin {"rep", "both"}
       THEN /\ ga_pc' = "insights"
            /\ UNCHANGED <<ga_exc, ga_webhooks, ga_result>>
       ELSE \E raises \in BOOLEAN :
            IF raises
            THEN /\ GoToExcept("ValueError", "report")
                 /\ UNCHANGED <<ga_webhooks, ga_result>>
            ELSE IF resort_config_from_env
            THEN IF SendToWebhooks(resort_name, "report").kind = "raise"
                 THEN /\ GoToExcept(SendToWebhooks(resort_name, "report").exc,
                                    "report")
                      /\ UNCHANGED <<ga_webhooks, ga_result>>
                 ELSE /\ ga_webhooks' =
                           Append(ga_webhooks,
                                  SendToWebhooks(resort_name, "report").value)
                      /\ ga_pc' = "insights"
                      /\ UNCHANGED <<ga_exc, ga_result>>
            ELSE /\ ga_result' = [ga_result EXCEPT !.report_path = [path |-> "report.xlsx"]]
                 /\ ga_pc' = "insights"
                 /\ UNCHANGED <<ga_exc, ga_webhooks>>
    /\ UNCHANGED <<resort_config_from_env, resort_name, ga_is_current,
                   analysis_type, ga_ranges_done, ga_fetched, ga_outcome,
                   notGenerateVars>>

\* if generate_insights, src/analysis_engine.py:1401-1427, and the return at
\* line 1457: an exception of the insights is logged and dropped
BuildInsights ==
    /\ ga_pc = "insights"
    /\ \E exported \in BOOLEAN :
         ga_result' =
            IF analysis_type \in {"ins", "both"} /\ exported
            THEN [ga_result EXCEPT !.insights_path = [path |-> "insights.xlsx"]]
            ELSE ga_result
    /\ ga_outcome' = Returned(ga_result')
    /\ ga_pc' = "returned"
    /\ UNCHANGED <<resort_config_from_env, resort_name, ga_is_current,
                   analysis_type, ga_ranges_done, ga_fetched, ga_webhooks,
                   ga_exc, notGenerateVars>>

\* the except clause, src/analysis_engine.py:1430-1451: the error payload is
\* sent before the bare raise, and what send_to_n8n_webhooks raises leaves
\* the clause in place of the exception that was caught
HandleException ==
    /\ ga_pc = "except"
    /\ IF ForwardsError(resort_config_from_env)
       THEN IF SendToWebhooks(resort_name, "error").kind = "raise"
            THEN /\ ga_webhooks' = ga_webhooks
                 /\ ga_outcome' =
                       Raised([exc |-> SendToWebhooks(resort_name, "error").exc,
                               during |-> "except"])
            ELSE /\ ga_webhooks' =
                       Append(ga_webhooks,
                              SendToWebhooks(resort_name, "error").value)
                 /\ ga_outcome' = Raised(ga_exc)
       ELSE /\ ga_webhooks' = ga_webhooks
            /\ ga_outcome' = Raised(ga_exc)
    /\ ga_pc' = "raised"
    /\ UNCHANGED <<resort_config_from_env, resort_name, ga_is_current,
                   analysis_type, ga_ranges_done, ga_fetched, ga_exc,
                   ga_result, notGenerateVars>>

NextGenerate ==
    \/ Connect
    \/ FetchRange
    \/ AggregateAll
    \/ BuildReport
    \/ BuildInsights
    \/ HandleException

-----------------------------------------------------------------------------
(* main, src/main.py:11-38: the batch over the resorts *)

\* RESORT_MAPPING, src/config.py:65-80
RESORT_MAPPING ==
    << [dbName |-> "Purgatory", resortName |-> "PURGATORY", groupNum |-> 46],
       [dbName |-> "Purgatory", resortName |-> "HESPERUS", groupNum |-> 54],
       [dbName |-> "Purgatory", resortName |-> "SNOWCAT", groupNum |-> 59],
       [dbName |-> "Purgatory", resortName |-> "SPIDER MOUNTAIN", groupNum |-> 67],
       [dbName |-> "Purgatory", resortName |-> "DMMA", groupNum |-> 70],
       [dbName |-> "Purgatory", resortName |-> "WILLAMETTE", groupNum |-> 71],
       [dbName |-> "MCP", resortName |-> "PAJARITO", groupNum |-> 9],
       [dbName |-> "MCP", resortName |-> "SANDIA", groupNum |-> 10],
       [dbName |-> "MCP", resortName |-> "WILLAMETTE", groupNum |-> 12],
       [dbName |-> "Snowbowl", resortName |-> "Snowbowl", groupNum |-> -1],
       [dbName |-> "Lee Canyon", resortName |-> "Lee Canyon", groupNum |-> -1],
       [dbName |-> "Sipapu", resortName |-> "Sipapu", groupNum |-> -1],
       [dbName |-> "Nordic", resortName |-> "Nordic", groupNum |-> -1],
       [dbName |-> "Brian", resortName |-> "Brian", groupNum |-> -1] >>

\* the batch is followed over the first MaxResorts resorts of the list
MaxResorts == 4

\* resorts = RESORT_MAPPING, src/main.py:14
resorts == SubSeq(RESORT_MAPPING, 1, MaxResorts)

\* what generate_analysis does when it is given a resort_config: it raises,
\* or returns a result whose report_path is set when a report was asked for
\* and whose insights_path is set when insights were asked for and exported
\* (src/analysis_engine.py:1377-1399, 1401-1427, 1451, 1457)
GenerateAnalysisOutcomes(resort_config, type) ==
    { Raised(exc) : exc \in {"OperationError", "KeyError"} }
    \cup
    { Returned([report_path |->
                    IF type \in {"rep", "both"}
                    THEN [path |-> <<resort_config.resortName, "Report">>]
                    ELSE PyNone,
                insights_path |-> insights_path]) :
        insights_path \in
            IF type \in {"ins", "both"}
            THEN {[path |-> <<resort_config.resortName, "Insights">>], PyNone}
            ELSE {PyNone} }

\* the paths of the result are saved whether they are set or not
SavePathsUnchecked(saved, result) ==
    [reports |-> Append(saved.reports, result.report_path),
     insights |-> Append(saved.insights, result.insights_path)]

\* src/main.py:26-29: a path that is set is appended to its list
SavePaths(saved, result) ==
    [reports |-> IF result.report_path # PyNone
                 THEN Append(saved.reports, result.report_path)
                 ELSE saved.reports,
     insights |-> IF result.insights_path # PyNone
                  THEN Append(saved.insights, result.insights_path)
                  ELSE saved.insights]

InitMain ==
    /\ main_analysis_type \in {"rep", "ins", "both"}
    /\ main_pc = "loop"
    /\ main_calls = << >>
    /\ saved_files = [reports |-> << >>, insights |-> << >>]

IdleMain ==
    /\ main_analysis_type = "both"
    /\ main_pc = "idle"
    /\ main_calls = << >>
    /\ saved_files = [reports |-> << >>, insights |-> << >>]

\* one pass of the loop over the resorts, src/main.py:19-33: the call, then
\* the paths saved or the exception caught and printed
AttemptResort ==
    /\ main_pc = "loop"
    /\ Len(main_calls) < Len(resorts)
    /\ LET resort_config == resorts[Len(main_calls) + 1]
       IN  \E did \in GenerateAnalysisOutcomes(resort_config, main_analysis_type) :
              /\ main_calls' = Append(main_calls,
                                      [resort_config |-> resort_config, did |-> did])
              /\ saved_files' = IF did.kind = "return"
                                THEN SavePaths(saved_files, did.value)
                                ELSE saved_files
    /\ UNCHANGED <<main_analysis_type, main_pc, notMainVars>>

\* the loop is over: return saved_files, src/main.py:35-38
MainReturns ==
    /\ main_pc = "loop"
    /\ Len(main_calls) = Len(resorts)
    /\ main_pc' = "returned"
    /\ UNCHANGED <<main_analysis_type, main_calls, saved_files, notMainVars>>

NextMain ==
    \/ AttemptResort
    \/ MainReturns

-----------------------------------------------------------------------------
(* The budget cells of the report and of the insights table,
   src/analysis_engine.py:1321-1425.  The run has aggregated its visits,
   revenue and payroll; what follows is modelled for the budget tables: the
   budget aggregation, the budget of the insights, the report (a JSON
   document when the resort came from the environment, a workbook if not)
   and the insights table.  Of the report the Budget columns are modelled. *)

\* resort_name of the run
ReportResortName == <<"S","n","o","w">>

\* the departments the revenue and payroll aggregators left in departments_set
ReportDepartments == {<<"A">>, <<"B">>}

\* processed_visits, processed_payroll and processed_revenue of the run
ReportVisits(locations) == [name \in RangeNames |-> [l \in locations |-> Flt(5)]]
ReportPayroll == [name \in RangeNames |-> (<<"A">> :> Flt(40))]
ReportRevenue ==
    [name \in RangeNames |-> (<<"A">> :> Flt(400) @@ <<"B">> :> Flt(90))]

\* the amounts of the rows the full-week fetch, the week-to-date fetch and
\* the fetch of the day return: no amount is in two of them
WeekTotalAmounts == [payroll |-> 70, revenue |-> 700, visits |-> 7, other |-> 80]
WeekToDateAmounts == [payroll |-> 30, revenue |-> 300, visits |-> 3, other |-> 40]
DayAmounts == [payroll |-> 10, revenue |-> 100, visits |-> 1, other |-> 20]

\* the table a budget fetch returns: payroll and revenue of department A, the
\* visits of the code mapped to a location, and the payroll of department B
BudgetFetch(amounts, with_other) ==
    LET Row(code, type, amount) ==
            [code |-> StrCell(code), type |-> StrCell(type),
             amount |-> PyFlt(amount), title |-> PyNone]
        rows == << Row(<<"A">>, <<"P","a","y","r","o","l","l">>, amounts.payroll),
                   Row(<<"A">>, <<"R","e","v","e","n","u","e">>, amounts.revenue),
                   Row(<<"V">>, <<"V","i","s","i","t","s">>, amounts.visits) >>
    IN  [cols |-> [title |-> TRUE],
         rows |-> IF with_other
                  THEN Append(rows, Row(<<"B">>, <<"P","a","y","r","o","l","l">>,
                                         amounts.other))
                  ELSE rows]

NoBudgetRows == [cols |-> [title |-> TRUE], rows |-> << >>]

\* the locations the visits aggregator left in locations_set
ReportLocations ==
    { {<<"S","n","o","w"," ","L","o","d","g","e">>},
      {<<"S","n","o","w"," ","L","o","d","g","e">>, <<"B","a","s","e">>} }

\* s.startswith(prefix)
StrStartsWith(s, prefix) ==
    Len(prefix) <= Len(s) /\ SubSeq(s, 1, Len(prefix)) = prefix

\* DataUtils.process_location_name, src/utils.py:64-75
ProcessLocationName(location_name, resort) ==
    IF location_name = << >> THEN << >>
    ELSE LET location_lowercase == StrStrip(StrLower(location_name))
             resort_lowercase == StrStrip(StrLower(resort))
         IN  IF StrStartsWith(location_lowercase, resort_lowercase)
             THEN StrStrip(SubSeq(location_lowercase, Len(resort_lowercase) + 1,
                                  Len(location_lowercase)))
             ELSE location_lowercase

\* the name of the Budget column of an Actual range,
\* src/analysis_engine.py:1340
BudgetColumn(name) ==
    IF name = "For The Week Ending (Actual)"
    THEN "Week Total (Actual) (Budget)"
    ELSE name \o " (Budget)"

\* the Budget columns of column_structure
BudgetColumns == { BudgetColumn(actual_range_names[i]) : i \in DOMAIN actual_range_names }

\* _get_budget_range_name, src/analysis_engine.py:481-484
GetBudgetRangeName(column_name) ==
    IF column_name = "Week Total (Actual) (Budget)"
    THEN "For The Week Ending (Actual)"
    ELSE CHOOSE name \in RangeNames : name \o " (Budget)" = column_name

\* range_name.replace("(Actual)", "(Prior Year)"), src/analysis_engine.py:500
PriorRangeName(range_name) ==
    CASE range_name = "For The Day (Actual)" -> "For The Day (Prior Year)"
      [] range_name = "For The Week Ending (Actual)" -> "For The Week Ending (Prior Year)"
      [] range_name = "Month to Date (Actual)" -> "Month to Date (Prior Year)"
      [] range_name = "For Winter Ending (Actual)" -> "For Winter Ending (Prior Year)"

\* sum(dict.values())
RECURSIVE SumValues(_)
SumValues(dict) ==
    IF DOMAIN dict = {} THEN Zero
    ELSE LET k == CHOOSE key \in DOMAIN dict : TRUE
         IN  FAdd(dict[k], SumValues([x \in DOMAIN dict \ {k} |-> dict[x]]))

\* the body of the loop of _process_budget_dataframe,
\* src/analysis_engine.py:428-443: a row of type visits is passed over
BudgetDataframeRow(out, row, has_title_col) ==
    LET dept_code == TrimDeptCode(row.code)
        amount == Normalized(row.amount)
        budget_type == IF NotNa(row.type)
                       THEN StrLower(StrStrip(PyStr(row.type))) ELSE << >>
        entry == DictGet(out.processed_budget, dept_code,
                         [Payroll |-> Zero, Revenue |-> Zero])
    IN  IF dept_code = << >> THEN out
        ELSE IF StrContains(budget_type, <<"v","i","s","i","t","s">>) THEN out
        ELSE [processed_budget |->
                 DictSet(out.processed_budget, dept_code,
                    IF StrContains(budget_type, <<"p","a","y","r","o","l","l">>)
                    THEN [entry EXCEPT !.Payroll = amount]
                    ELSE IF StrContains(budget_type, <<"r","e","v","e","n","u","e">>)
                    THEN [entry EXCEPT !.Revenue = amount]
                    ELSE entry),
              shared |->
                 IF /\ has_title_col
                    /\ NotNa(row.title)
                    /\ dept_code \notin DOMAIN out.shared.department_to_title
                 THEN SetTitle(out.shared, dept_code, StrStrip(PyStr(row.title)))
                 ELSE out.shared]

RECURSIVE BudgetDataframeRows(_, _, _)
BudgetDataframeRows(rows, has_title_col, out) ==
    IF rows = << >> THEN out
    ELSE BudgetDataframeRows(Tail(rows), has_title_col,
                             BudgetDataframeRow(out, Head(rows), has_title_col))

\* _process_budget_dataframe, src/analysis_engine.py:418-444
ProcessBudgetDataframe(dataframe, shared) ==
    IF IsEmpty(dataframe)
    THEN [processed_budget |-> EmptyDict, shared |-> shared]
    ELSE BudgetDataframeRows(dataframe.rows, dataframe.cols.title,
                             [processed_budget |-> EmptyDict, shared |-> shared])

\* the cells of the Budget columns of the financial rows: for each column and
\* department the Revenue and the Payroll cell,
\* src/analysis_engine.py:958-977 and 1109-1131
FinancialBudgetCells(processed_budget, departments) ==
    [col_name \in BudgetColumns |->
        [dept_code \in departments |->
            LET range_key == GetBudgetRangeName(col_name)
                budget_data == DictGet(DictGet(processed_budget, range_key, EmptyDict),
                                       dept_code, EmptyDict)
            IN  [Revenue |-> Normalized(FloatCell(DictGet(budget_data, "Revenue", Zero))),
                 Payroll |-> Normalized(FloatCell(DictGet(budget_data, "Payroll", Zero)))]]]

\* the Total Revenue and Total Payroll cells of the Budget columns,
\* src/analysis_engine.py:1006-1009 and 1143-1148
TotalBudgetCells(processed_budget, departments) ==
    LET cells == FinancialBudgetCells(processed_budget, departments)
    IN  [col_name \in BudgetColumns |->
            [Revenue |-> SumValues([d \in departments |-> cells[col_name][d].Revenue]),
             Payroll |-> SumValues([d \in departments |-> cells[col_name][d].Payroll])]]

\* the cells of a column that is not a Budget column in the Revenue (or the
\* Payroll) rows of the departments, src/analysis_engine.py:959-977; table
\* is processed_revenue[col_name] (or processed_payroll[col_name])
FinancialCells(table, sorted_depts) ==
    [dept_code \in sorted_depts |->
        LET trimmed_code == TrimDeptCode(StrCell(dept_code))
        IN  Normalized(FloatCell(DictGet(table, trimmed_code, Zero)))]

\* the Total Revenue (or Total Payroll) cell of a column that is not a Budget
\* column, src/analysis_engine.py:1010-1012
TotalCell(table) == SumValues(table)

\* _write_visits_section, src/analysis_engine.py:928-952: the cells of the
\* Budget columns; processed_budget is the visits budget the caller passes
WriteVisitsSection(processed_budget, locations, resort) ==
    [locations |->
        [col_name \in BudgetColumns |->
            [location \in locations |->
                LET range_key == GetBudgetRangeName(col_name)
                    loc_key == ProcessLocationName(location, resort)
                IN  Normalized(FloatCell(
                        DictGet(DictGet(processed_budget, range_key, EmptyDict),
                                loc_key, Zero)))]],
     total_tickets |->
        [col_name \in BudgetColumns |->
            Normalized(FloatCell(SumValues(
                DictGet(processed_budget, GetBudgetRangeName(col_name), EmptyDict))))]]

\* the Visits section of _build_report_json, src/analysis_engine.py:1077-1101:
\* the location rows look the location up in processed_budget, the table of
\* the departments, whose entries are dicts; normalize_value of a dict is 0.0
\* (TypeError at src/utils.py:41)
JsonVisitsSection(processed_budget, visits_budget, locations_set, resort) ==
    [locations |->
        [col_name \in BudgetColumns |->
            [location \in locations_set |->
                LET range_key == GetBudgetRangeName(col_name)
                    loc_key == ProcessLocationName(location, resort)
                    by_dept == DictGet(processed_budget, range_key, EmptyDict)
                IN  IF loc_key \in DOMAIN by_dept
                    THEN Zero
                    ELSE Normalized(FloatCell(Zero))]],
     total_tickets |->
        [col_name \in BudgetColumns |->
            Normalized(FloatCell(SumValues(
                DictGet(visits_budget, GetBudgetRangeName(col_name),
                        EmptyDict))))]]

\* the three values _get_range_data looks up, src/analysis_engine.py:502-519;
\* the two variances it returns with them are calculate_variance_percentage
\* of the budget and of the prior value with the actual one (lines 521-522)
RangeData(actual_val, budget_val, prior_val) ==
    [actual |-> actual_val, budget |-> budget_val, prior |-> prior_val]

\* dict.get(name, {}).get(key, 0.0), normalized
RangeValue(table, name, lookup_key) ==
    Normalized(FloatCell(DictGet(DictGet(table, name, EmptyDict), lookup_key, Zero)))

\* processed_budget.get(name, {}).get(key, {}).get(kind, 0.0), normalized
RangeBudget(processed_budget, name, lookup_key, kind) ==
    Normalized(FloatCell(
        DictGet(DictGet(DictGet(processed_budget, name, EmptyDict),
                        lookup_key, EmptyDict), kind, Zero)))

\* _get_range_data, src/analysis_engine.py:496-519
GetRangeData(range_name, data_type, key, visits_of, revenue_of, payroll_of, processed_budget, visits_budget, resort) ==
    IF data_type = "visits"
    THEN RangeData(RangeValue(visits_of, range_name, key),
                   RangeValue(visits_budget, range_name,
                              ProcessLocationName(key, resort)),
                   RangeValue(visits_of, PriorRangeName(range_name), key))
    ELSE IF data_type = "payroll"
    THEN RangeData(RangeValue(payroll_of, range_name, key),
                   RangeBudget(processed_budget, range_name, key, "Payroll"),
                   RangeValue(payroll_of, PriorRangeName(range_name), key))
    ELSE RangeData(RangeValue(revenue_of, range_name, key),
                   RangeBudget(processed_budget, range_name, key, "Revenue"),
                   RangeValue(revenue_of, PriorRangeName(range_name), key))

\* _generate_insights_dataframe, src/analysis_engine.py:552-598: the data
\* rows under each of the three headers, in order; a row holds its header,
\* its department code and, for each Actual range, what _get_range_data gave
InsightsRowsBySection(visits_of, revenue_of, payroll_of, processed_budget, visits_budget, locations, depts, titles, resort) ==
    LET Data(data_type, key) ==
            [range_name \in { actual_range_names[i] : i \in DOMAIN actual_range_names } |->
                GetRangeData(range_name, data_type, key, visits_of,
                             revenue_of, payroll_of, processed_budget,
                             visits_budget, resort)]
        sorted_locations == SortedStrings(locations)
        sorted_departments == SortedStrings(depts)
        DeptRow(data_type, dept_code) ==
            [row_header |-> TitleOf(titles, dept_code),
             dept_code |-> dept_code, data |-> Data(data_type, dept_code)]
    IN  [Visits |-> [i \in DOMAIN sorted_locations |->
                        [row_header |-> sorted_locations[i], dept_code |-> << >>,
                         data |-> Data("visits", sorted_locations[i])]],
         Payroll |-> [i \in DOMAIN sorted_departments |->
                         DeptRow("payroll", sorted_departments[i])],
         Revenue |-> [i \in DOMAIN sorted_departments |->
                         DeptRow("revenue", sorted_departments[i])]]

\* the budget tables of a run: the three fetches of the week-ending range and
\* the fetch of the day; src/analysis_engine.py:1280-1309
InitReport ==
    /\ rp_analysis_type \in {"rep", "ins", "both"}
    /\ rp_from_env \in BOOLEAN
    /\ \E budget_week_total \in {NoBudgetRows, BudgetFetch(WeekTotalAmounts, TRUE)},
          budget_week_to_date \in {NoBudgetRows,
                                   BudgetFetch(WeekToDateAmounts, FALSE),
                                   BudgetFetch(WeekToDateAmounts, TRUE)},
          budget \in {NoBudgetRows, BudgetFetch(DayAmounts, FALSE)} :
         rp_store =
            [name \in RangeNames |->
                [budget |-> IF name = "For The Day (Actual)" THEN budget
                            ELSE NoBudgetRows,
                 budget_week_total |->
                    IF name = "For The Week Ending (Actual)" THEN budget_week_total
                    ELSE NoBudgetRows,
                 budget_week_to_date |->
                    IF name = "For The Week Ending (Actual)" THEN budget_week_to_date
                    ELSE NoBudgetRows]]
    /\ rp_locations \in ReportLocations
    /\ rp_pc = "budget"
    /\ rp_processed_budget = NotCalled
    /\ rp_visits_budget = NotCalled
    /\ rp_insights_budget = NotCalled
    /\ rp_shared = [all_departments |-> ReportDepartments,
                    department_to_title |-> EmptyDict, title_writes |-> << >>]
    /\ rp_report = NotCalled
    /\ rp_insights = NotCalled

\* processed_budget, visits_budget = self._process_budget(...),
\* src/analysis_engine.py:1321-1322
ReportProcessBudget ==
    /\ rp_pc = "budget"
    /\ LET out == ProcessBudget(actual_range_names, rp_store, VISITS_DEPT_CODE_MAPPING,
                      [processed_financial_budget |-> EmptyByRange,
                       processed_visits_budget |-> EmptyByRange,
                       shared |-> rp_shared])
       IN  /\ rp_processed_budget' = out.processed_financial_budget
           /\ rp_visits_budget' = out.processed_visits_budget
           /\ rp_shared' = out.shared
    /\ rp_pc' = "insights_budget"
    /\ UNCHANGED <<rp_analysis_type, rp_from_env, rp_store, rp_locations,
                   rp_insights_budget, rp_report, rp_insights, notReportVars>>

\* the budget of the insights, src/analysis_engine.py:1324-1331: a copy of
\* processed_budget whose week-ending entry is replaced when the week-to-date
\* table has rows; processed_budget itself keeps its entries
BuildInsightsBudget ==
    /\ rp_pc = "insights_budget"
    /\ LET generate_insights == rp_analysis_type \in {"ins", "both"}
           budget_week_to_date_df ==
               rp_store["For The Week Ending (Actual)"].budget_week_to_date
           week_to_date == ProcessBudgetDataframe(budget_week_to_date_df, rp_shared)
       IN  IF generate_insights /\ ~IsEmpty(budget_week_to_date_df)
           THEN /\ rp_insights_budget' =
                       DictSet(rp_processed_budget, "For The Week Ending (Actual)",
                               week_to_date.processed_budget)
                /\ rp_shared' = week_to_date.shared
           ELSE /\ rp_insights_budget' =
                       IF generate_insights THEN rp_processed_budget ELSE PyNone
                /\ rp_shared' = rp_shared
    /\ rp_pc' = "report"
    /\ UNCHANGED <<rp_analysis_type, rp_from_env, rp_store, rp_locations,
                   rp_processed_budget, rp_visits_budget, rp_report, rp_insights,
                   notReportVars>>

\* report_json = self._build_report_json(...), src/analysis_engine.py:1343-1363
BuildReportJson ==
    /\ rp_pc = "report"
    /\ rp_analysis_type \in {"rep", "both"}
    /\ rp_from_env
    /\ rp_report' =
          [format |-> "json",
           visits |-> JsonVisitsSection(rp_processed_budget, rp_visits_budget,
                                        rp_locations, ReportResortName),
           financials |-> FinancialBudgetCells(rp_processed_budget,
                                               rp_shared.all_departments),
           totals |-> TotalBudgetCells(rp_processed_budget,
                                       rp_shared.all_departments)]
    /\ rp_pc' = "insights"
    /\ UNCHANGED <<rp_analysis_type, rp_from_env, rp_store, rp_locations,
                   rp_processed_budget, rp_visits_budget, rp_insights_budget,
                   rp_shared, rp_insights, notReportVars>>

\* the workbook, src/analysis_engine.py:1365-1400
WriteWorkbook ==
    /\ rp_pc = "report"
    /\ rp_analysis_type \in {"rep", "both"}
    /\ ~rp_from_env
    /\ rp_report' =
          [format |-> "xlsx",
           visits |-> WriteVisitsSection(rp_visits_budget, rp_locations,
                                         ReportResortName),
           financials |-> FinancialBudgetCells(rp_processed_budget,
                                               rp_shared.all_departments),
           totals |-> TotalBudgetCells(rp_processed_budget,
                                       rp_shared.all_departments)]
    /\ rp_pc' = "insights"
    /\ UNCHANGED <<rp_analysis_type, rp_from_env, rp_store, rp_locations,
                   rp_processed_budget, rp_visits_budget, rp_insights_budget,
                   rp_shared, rp_insights, notReportVars>>

\* generate_report is false, src/analysis_engine.py:1333
NoReport ==
    /\ rp_pc = "report"
    /\ rp_analysis_type = "ins"
    /\ rp_pc' = "insights"
    /\ UNCHANGED <<rp_analysis_type, rp_from_env, rp_store, rp_locations,
                   rp_processed_budget, rp_visits_budget, rp_insights_budget,
                   rp_shared, rp_report, rp_insights, notReportVars>>

\* insights_df = self._generate_insights_dataframe(...),
\* src/analysis_engine.py:1402-1414
GenerateInsights ==
    /\ rp_pc = "insights"
    /\ rp_analysis_type \in {"ins", "both"}
    /\ rp_insights' =
          InsightsRowsBySection(ReportVisits(rp_locations), ReportRevenue,
              ReportPayroll, rp_insights_budget, rp_visits_budget, rp_locations,
              rp_shared.all_departments, rp_shared.department_to_title,
              ReportResortName)
    /\ rp_pc' = "done"
    /\ UNCHANGED <<rp_analysis_type, rp_from_env, rp_store, rp_locations,
                   rp_processed_budget, rp_visits_budget, rp_insights_budget,
                   rp_shared, rp_report, notReportVars>>

\* generate_insights is false, src/analysis_engine.py:1402
NoInsights ==
    /\ rp_pc = "insights"
    /\ rp_analysis_type = "rep"
    /\ rp_pc' = "done"
    /\ UNCHANGED <<rp_analysis_type, rp_from_env, rp_store, rp_locations,
                   rp_processed_budget, rp_visits_budget, rp_insights_budget,
                   rp_shared, rp_report, rp_insights, notReportVars>>

NextReport ==
    \/ ReportProcessBudget
    \/ BuildInsightsBudget
    \/ BuildReportJson
    \/ WriteWorkbook
    \/ NoReport
    \/ GenerateInsights
    \/ NoInsights

\* the parts that follow the aggregation of a run are idle
IdleLater == IdleColumns /\ IdleGenerate /\ IdleMain /\ IdleMore

-----------------------------------------------------------------------------
(* execute_with_retry, src/utils.py:257-290 *)

\* the largest max_retries argument tried
MaxRetriesArg == 4

\* the largest delay argument tried (seconds)
MaxDelayArg == 2

\* the default of the max_retries parameter
DefaultMaxRetries == 3

RetryKeywords ==
    { <<"d","e","a","d","l","o","c","k">>,
      <<"t","i","m","e","o","u","t">>,
      <<"c","o","n","n","e","c","t","i","o","n">>,
      <<"l","o","c","k">> }

\* str(e) of the errors the operation may raise
ErrorMessages ==
    { <<"D","e","a","d","l","o","c","k">>,
      <<"Q","u","e","r","y"," ","t","i","m","e","o","u","t">>,
      <<"C","O","N","N","E","C","T","I","O","N">>,
      <<"B","l","o","c","k","e","d">>,
      <<"S","y","n","t","a","x">>,
      <<"L","o","c"," ","k","e","y">>,
      << >> }

\* what operation_func may return
OperationResults == {"df_a", "df_b"}

NoOutcome == [kind |-> "none"]

\* line 280-281: error_msg = str(e).lower(); any(keyword in error_msg ...)
IsRetryableAlways(message) == TRUE

IsRetryable(message) ==
    LET error_msg == StrLower(message)
    IN  \E keyword \in RetryKeywords : StrContains(error_msg, keyword)

InitRetry ==
    /\ max_retries \in 0..MaxRetriesArg
    /\ delay \in 1..MaxDelayArg
    /\ attempt = 1
    /\ retry_pc = "loop"
    /\ events = << >>
    /\ outcome = NoOutcome

IdleRetry ==
    /\ max_retries = DefaultMaxRetries
    /\ delay = 1
    /\ attempt = 1
    /\ retry_pc = "idle"
    /\ events = << >>
    /\ outcome = NoOutcome

\* line 276: range(1, max_retries + 1) is exhausted without a return or a raise
\* (only when max_retries < 1): the function falls off its end and returns None
RetryLoopExhausted ==
    /\ retry_pc = "loop"
    /\ attempt > max_retries
    /\ retry_pc' = "returned"
    /\ outcome' = [kind |-> "return", value |-> "None"]
    /\ UNCHANGED <<max_retries, delay, attempt, events, notRetryVars>>

\* line 277-278: operation_func() returns
RetryOperationReturns ==
    /\ retry_pc = "loop"
    /\ attempt <= max_retries
    /\ \E value \in OperationResults :
         /\ events' = Append(events, [ev |-> "call", attempt |-> attempt,
                                      ok |-> TRUE, value |-> value])
         /\ outcome' = [kind |-> "return", value |-> value]
    /\ retry_pc' = "returned"
    /\ UNCHANGED <<max_retries, delay, attempt, notRetryVars>>

\* line 279-290: operation_func() raises; the except block up to the call of
\* time.sleep or the re-raise
RetryOperationRaises ==
    /\ retry_pc = "loop"
    /\ attempt <= max_retries
    /\ \E message \in ErrorMessages :
         /\ events' = Append(events, [ev |-> "call", attempt |-> attempt,
                                      ok |-> FALSE, message |-> message])
         /\ IF attempt < max_retries /\ IsRetryable(message)
            THEN /\ retry_pc' = "sleep"
                 /\ outcome' = outcome
            ELSE /\ retry_pc' = "raised"
                 /\ outcome' = [kind |-> "raise", message |-> message]
    /\ UNCHANGED <<max_retries, delay, attempt, notRetryVars>>

\* the mutation of BackoffSeconds: the same delay after every failure
BackoffSecondsFlat(base_delay, failed_attempt) == base_delay

\* line 286: delay * attempt
BackoffSeconds(base_delay, failed_attempt) == base_delay * failed_attempt

\* line 286: time.sleep(delay * attempt), then the next iteration of the loop
RetrySleep ==
    /\ retry_pc = "sleep"
    /\ events' = Append(events, [ev |-> "sleep", attempt |-> attempt,
                                 seconds |-> BackoffSeconds(delay, attempt)])
    /\ attempt' = attempt + 1
    /\ retry_pc' = "loop"
    /\ UNCHANGED <<max_retries, delay, outcome, notRetryVars>>

NextRetry ==
    \/ RetryLoopExhausted
    \/ RetryOperationReturns
    \/ RetryOperationRaises
    \/ RetrySleep

NextNormalize == CallNormalizeValue

NextVariance ==
    \/ CallCalculateVariancePercentage
    \/ CallCalculateComparisonVariancePercentage

NextDates ==
    \/ DateRangeCalculatorInit
    \/ CallGetAllRanges
    \/ CallWeekTotalActual

NextTopBottom ==
    \/ CallGenerateInsightsDataframe
    \/ CallGetTopBottomRows

NextContract == ProcessContractRow

NextRun ==
    \/ CallProcessRevenue
    \/ CallProcessPayroll
    \/ CallProcessBudget

-----------------------------------------------------------------------------
(* Specifications: one per part of the program *)

StartRetry == InitRetry /\ IdleNormalize /\ IdleVariance /\ IdleDates /\ IdleTopBottom /\ IdleContract /\ IdleRun /\ IdleLater

SpecRetry == StartRetry /\ [][NextRetry]_vars

\* operation_func is a synchronous call that returns or raises, and
\* time.sleep returns: a step that can be taken is taken
SpecRetryFair == SpecRetry /\ WF_vars(NextRetry)

StartNormalize == InitNormalize /\ IdleRetry /\ IdleVariance /\ IdleDates /\ IdleTopBottom /\ IdleContract /\ IdleRun /\ IdleLater

SpecNormalize == StartNormalize /\ [][NextNormalize]_vars

StartVariance == InitVariance /\ IdleRetry /\ IdleNormalize /\ IdleDates /\ IdleTopBottom /\ IdleContract /\ IdleRun /\ IdleLater

SpecVariance == StartVariance /\ [][NextVariance]_vars

StartDates == InitDates /\ IdleRetry /\ IdleNormalize /\ IdleVariance /\ IdleTopBottom /\ IdleContract /\ IdleRun /\ IdleLater

SpecDates == StartDates /\ [][NextDates]_vars

\* the ranges computed twice from the same arguments
NextDatesTwice ==
    \/ DateRangeCalculatorInit
    \/ CallGetAllRanges
    \/ CallWeekTotalActual
    \/ ComputeAgain

StartDatesTwice ==
    /\ InitDatesTwice
    /\ IdleRetry /\ IdleNormalize /\ IdleVariance /\ IdleTopBottom /\ IdleContract
    /\ IdleRun /\ IdleLater

SpecDatesTwice == StartDatesTwice /\ [][NextDatesTwice]_vars

StartTopBottom ==
    /\ InitTopBottom
    /\ IdleRetry /\ IdleNormalize /\ IdleVariance /\ IdleDates /\ IdleContract
    /\ IdleRun
    /\ IdleLater

SpecTopBottom == StartTopBottom /\ [][NextTopBottom]_vars

StartContract ==
    /\ InitContract
    /\ IdleRetry /\ IdleNormalize /\ IdleVariance /\ IdleDates /\ IdleTopBottom
    /\ IdleRun
    /\ IdleLater

SpecContract == StartContract /\ [][NextContract]_vars

StartRun ==
    /\ InitRun
    /\ IdleRetry /\ IdleNormalize /\ IdleVariance /\ IdleDates /\ IdleTopBottom
    /\ IdleContract
    /\ IdleLater

SpecRun == StartRun /\ [][NextRun]_vars

StartColumns ==
    /\ InitColumns
    /\ IdleRetry /\ IdleNormalize /\ IdleVariance /\ IdleDates /\ IdleTopBottom
    /\ IdleContract /\ IdleRun /\ IdleGenerate /\ IdleMain /\ IdleMore

SpecColumns == StartColumns /\ [][NextColumns]_vars

StartGenerate ==
    /\ InitGenerate
    /\ IdleRetry /\ IdleNormalize /\ IdleVariance /\ IdleDates /\ IdleTopBottom
    /\ IdleContract /\ IdleRun /\ IdleColumns /\ IdleMain /\ IdleMore

SpecGenerate == StartGenerate /\ [][NextGenerate]_vars

StartMain ==
    /\ InitMain
    /\ IdleRetry /\ IdleNormalize /\ IdleVariance /\ IdleDates /\ IdleTopBottom
    /\ IdleContract /\ IdleRun /\ IdleColumns /\ IdleGenerate /\ IdleMore

SpecMain == StartMain /\ [][NextMain]_vars

StartReport ==
    /\ InitReport
    /\ IdleRetry /\ IdleNormalize /\ IdleVariance /\ IdleDates /\ IdleTopBottom
    /\ IdleContract /\ IdleRun /\ IdleColumns /\ IdleGenerate /\ IdleMain
    /\ IdleAgain

SpecReport == StartReport /\ [][NextReport]_vars

-----------------------------------------------------------------------------
(* Claims about execute_with_retry *)

RetryCalls == { i \in DOMAIN events : events[i].ev = "call" }

\* the message holds none of the four keywords, whatever its case
HoldsNoKeyword(message) ==
    \A keyword \in RetryKeywords : ~StrContains(StrLower(message), keyword)

\* C10: execute_with_retry invokes the operation at most max_retries times,
\* stops at the first success and returns its result, and raises an error
\* whose message holds none of the keywords at once: no sleep and no further
\* attempt follow it.
C10_RetryBoundedAndImmediate ==
    /\ Cardinality(RetryCalls) <= max_retries
    /\ \A i \in RetryCalls :
         /\ events[i].ok =>
              /\ i = Len(events)
              /\ retry_pc = "returned"
              /\ outcome = [kind |-> "return", value |-> events[i].value]
         /\ (~events[i].ok /\ HoldsNoKeyword(events[i].message)) =>
              /\ i = Len(events)
              /\ retry_pc = "raised"
              /\ outcome = [kind |-> "raise", message |-> events[i].message]
    /\ (retry_pc = "returned" /\ max_retries > 0) =>
         /\ events # << >>
         /\ events[Len(events)].ev = "call"
         /\ events[Len(events)].ok

\* a non-retryable error was raised on an attempt before the last one, after
\* an earlier transient failure and its sleep
C10_Witness ==
    /\ retry_pc = "raised"
    /\ max_retries = DefaultMaxRetries
    /\ Len(events) = 3
    /\ events[2].ev = "sleep"
    /\ HoldsNoKeyword(outcome.message)
    /\ attempt < max_retries

RetrySleeps == { i \in DOMAIN events : events[i].ev = "sleep" }

\* the k-th failed attempt and the sleep that follows it are events 2k-1 and
\* 2k of the call
FailedThenSlept(k) ==
    /\ 2 * k <= Len(events)
    /\ events[2 * k - 1].ev = "call"
    /\ events[2 * k - 1].attempt = k
    /\ ~events[2 * k - 1].ok
    /\ ~HoldsNoKeyword(events[2 * k - 1].message)
    /\ events[2 * k].ev = "sleep"
    /\ events[2 * k].seconds = delay * k

\* every sleep follows a failed attempt k < max_retries with a transient
\* error and lasts delay * k seconds, and what follows it is attempt k + 1
SleepsBackOff ==
    \A i \in RetrySleeps :
        /\ i > 1
        /\ events[i - 1].ev = "call"
        /\ ~events[i - 1].ok
        /\ ~HoldsNoKeyword(events[i - 1].message)
        /\ events[i - 1].attempt < max_retries
        /\ events[i].seconds = delay * events[i - 1].attempt
        /\ i < Len(events) =>
              /\ events[i + 1].ev = "call"
              /\ events[i + 1].attempt = events[i - 1].attempt + 1

\* a transient error reaches the caller after max_retries attempts and
\* max_retries - 1 sleeps, the k-th of delay * k seconds, and no sleep
\* follows the last failure
TransientSurfacedLast ==
    (retry_pc = "raised" /\ ~HoldsNoKeyword(outcome.message)) =>
        /\ Cardinality(RetryCalls) = max_retries
        /\ Cardinality(RetrySleeps) = max_retries - 1
        /\ Len(events) = 2 * max_retries - 1
        /\ \A k \in 1..(max_retries - 1) : FailedThenSlept(k)
        /\ events[Len(events)].ev = "call"
        /\ events[Len(events)].attempt = max_retries
        /\ events[Len(events)].message = outcome.message

-----------------------------------------------------------------------------
(* Claims about normalize_value and the variance percentages *)

\* C6: DataUtils.normalize_value never raises and always returns a finite
\* float, for every argument.
C6_NormalizeNeverRaises ==
    nv_ret # NotCalled => (nv_ret.kind = "return" /\ IsFinite(nv_ret.value))

\* the baseline argument is a float of magnitude below 1e-10
BaselineAboutZero ==
    /\ var_baseline.py = "float"
    /\ IsFinite(var_baseline.x)
    /\ -VarianceEps * var_baseline.x.d < var_baseline.x.n
    /\ var_baseline.x.n < VarianceEps * var_baseline.x.d

\* C7: whenever the baseline is about zero both variance functions return
\* 0.0, whatever the actual value, and no division by zero is performed.
C7_ZeroBaselineZeroVariance ==
    /\ (BaselineAboutZero /\ var_ret # NotCalled) => var_ret = Returned(Zero)
    /\ (BaselineAboutZero /\ cmp_ret # NotCalled) => cmp_ret = Returned(Zero)
    /\ \A divisor \in var_divisors : divisor.n # 0

\* both functions were called with a baseline that is not 0 but below the
\* threshold and an actual value away from it
C7_Witness ==
    /\ BaselineAboutZero
    /\ var_baseline.x.n # 0
    /\ var_actual = PyFlt(MaxVarianceArg)
    /\ var_ret = Returned(Zero)
    /\ cmp_ret = Returned(Zero)

-----------------------------------------------------------------------------
(* Claims about DateRangeCalculator *)

\* C5: every range returned by get_all_ranges, and the one returned by
\* week_total_actual, has start <= end, for every reference date and every
\* combination of is_current_date and use_exact_date.
C5_StartNotAfterEnd ==
    /\ ranges # NotCalled =>
         \A name \in RangeNames :
            DtLE(ranges.value[name][1], ranges.value[name][2])
    /\ week_total_actual_ret # NotCalled =>
         DtLE(week_total_actual_ret.value[1], week_total_actual_ret.value[2])

\* Nov 1, 00:00:00 of the year in which the season of the base date starts
SeasonStartOfBaseDate ==
    [year |-> IF base_date.month \in {11, 12}
              THEN base_date.year ELSE base_date.year - 1,
     month |-> 11, day |-> 1, second |-> 0, microsecond |-> 0]

\* C9: Winter Ending (Actual) starts on Nov 1 of the base date's year when its
\* month is November or December and of the previous year otherwise; Winter
\* Ending (Prior Year) starts one calendar year before that start and ends on
\* the base date's calendar date one year earlier, Feb 29 clamped to Feb 28.
C9_WinterEndingRanges ==
    ranges # NotCalled =>
        LET actual == ranges.value["For Winter Ending (Actual)"]
            prior == ranges.value["For Winter Ending (Prior Year)"]
        IN  /\ actual[1] = SeasonStartOfBaseDate
            /\ prior[1] = [SeasonStartOfBaseDate EXCEPT !.year = @ - 1]
            /\ prior[2].year = base_date.year - 1
            /\ prior[2].month = base_date.month
            /\ prior[2].day = IF base_date.month = 2 /\ base_date.day = 29
                              THEN 28 ELSE base_date.day

\* the ranges of a calculator whose base date is Feb 29 of a leap year
C9_Witness ==
    /\ ranges # NotCalled
    /\ base_date.month = 2
    /\ base_date.day = 29
    /\ ranges.value["For Winter Ending (Actual)"][1].year = base_date.year - 1
    /\ ranges.value["For Winter Ending (Prior Year)"][2].day = 28

-----------------------------------------------------------------------------
(* Claims about the top/bottom ranking *)

\* the elements of a list
Elements(list) == { list[i] : i \in DOMAIN list }

\* the list holds each row of a set exactly once, and nothing else
HoldsEachOnce(list, rows) ==
    Elements(list) = rows /\ Len(list) = Cardinality(rows)

\* the list holds exactly n distinct rows of a set
HoldsDistinct(list, rows, n) ==
    /\ Len(list) = n
    /\ Elements(list) \subseteq rows
    /\ Cardinality(Elements(list)) = n

\* C8: with N = 3, for a section with fewer than N data rows the top list and
\* the bottom list each hold every data row of the section exactly once; for
\* a section with at least N data rows each list holds exactly N distinct
\* rows.  A section is the rows between the boundaries the scan found.
C8_TopBottomLists ==
    tb_pc = "done" =>
        \A s \in DOMAIN tb_sections :
            LET rows == SectionRowsOf(insights_df, tb_sections[s])
            IN  IF rows = {} THEN s \notin DOMAIN tb_result
                ELSE /\ s \in DOMAIN tb_result
                     /\ IF Cardinality(rows) < TopBottomN
                        THEN /\ HoldsEachOnce(tb_result[s].top, rows)
                             /\ HoldsEachOnce(tb_result[s].bottom, rows)
                        ELSE /\ HoldsDistinct(tb_result[s].top, rows, TopBottomN)
                             /\ HoldsDistinct(tb_result[s].bottom, rows, TopBottomN)

\* a ranking in which Visits has one data row, which is all of both its lists,
\* and Payroll has more than N, so that its lists differ
C8_Witness ==
    /\ tb_pc = "done"
    /\ DOMAIN tb_result = SectionNames
    /\ Cardinality(SectionRowsOf(insights_df, tb_sections["Visits"])) = 1
    /\ Len(tb_result["Visits"].top) = 1
    /\ tb_result["Visits"].bottom = tb_result["Visits"].top
    /\ Cardinality(SectionRowsOf(insights_df, tb_sections["Payroll"])) > TopBottomN
    /\ Len(tb_result["Payroll"].top) = TopBottomN
    /\ Elements(tb_result["Payroll"].top) # Elements(tb_result["Payroll"].bottom)

-----------------------------------------------------------------------------
(* Claims about the contract-payroll rows *)

\* the rows of the table whose trimmed department code is d, in table order
RECURSIVE RowsOfDept(_, _)
RowsOfDept(rows, d) ==
    IF rows = << >> THEN << >>
    ELSE (IF TrimDeptCode(Head(rows).code) = d THEN <<Head(rows)>> ELSE << >>)
         \o RowsOfDept(Tail(rows), d)

\* the hours between the punch times of a row, 0 when one is missing or is
\* not a time or when the end is not after the start
PunchHours(row) ==
    IF /\ row.start # PyNone
       /\ row.end # PyNone
       /\ row.start.py \in {"datetime", "timestr"}
       /\ row.end.py \in {"datetime", "timestr"}
       /\ row.end.t > row.start.t
    THEN Rat(row.end.t - row.start.t, 3600)
    ELSE Zero

\* the normalized value of a cell of a column the table may not have
CellValue(has_col, cell) == IF has_col THEN Normalized(cell) ELSE Zero

\* the wage the rule gives for a row
RuleWage(row, cols) ==
    LET hours_column == CellValue(cols.hours, row.hours)
        rate == Normalized(row.rate)
        dollar_amount == CellValue(cols.dollar, row.dollar)
    IN  IF hours_column.n > 0
        THEN FAdd(FMul(hours_column, rate), dollar_amount)
        ELSE FAdd(FMul(PunchHours(row), rate), dollar_amount)

RECURSIVE SumOfWages(_, _)
SumOfWages(rows, cols) ==
    IF rows = << >> THEN Zero
    ELSE FAdd(RuleWage(Head(rows), cols), SumOfWages(Tail(rows), cols))

\* C3: for every contract row with a non-empty trimmed department code,
\* working_hours is max(0, end - start in hours) when both punch times are
\* present and valid and 0 otherwise; the wage is hours_column * rate +
\* dollar_amount when hours_column > 0 and working_hours * rate +
\* dollar_amount otherwise; and contract_total[d] is the sum of the wages of
\* the rows whose trimmed code is d.
C3_WageAndContractTotal ==
    payroll_rows # <<PyNone>> =>
        /\ DOMAIN payroll_acc.calculated_wages =
              { TrimDeptCode(payroll_rows[i].code) : i \in DOMAIN payroll_rows }
                 \ {<< >>}
        /\ DOMAIN payroll_acc.contract_rows_by_dept =
              DOMAIN payroll_acc.calculated_wages
        /\ \A d \in DOMAIN payroll_acc.calculated_wages :
              LET rows == RowsOfDept(payroll_rows, d)
                  logged == payroll_acc.contract_rows_by_dept[d]
              IN  /\ Len(logged) = Len(rows)
                  /\ \A i \in DOMAIN rows :
                        /\ logged[i].w_hrs = PunchHours(rows[i])
                        /\ logged[i].wage = RuleWage(rows[i], payroll_cols)
                  /\ payroll_acc.calculated_wages[d] = SumOfWages(rows, payroll_cols)

\* two rows of department A: one paid by its hours column whatever its punch
\* times, one (with surrounding blanks in its code) paid by its punch times
C3_Witness ==
    /\ Len(payroll_rows) = 2
    /\ DOMAIN payroll_acc.calculated_wages = {<<"A">>}
    /\ payroll_rows[2].code # payroll_rows[1].code
    /\ Len(payroll_acc.contract_rows_by_dept[<<"A">>]) = 2
    /\ payroll_acc.contract_rows_by_dept[<<"A">>][1].h_col = Flt(6)
    /\ payroll_acc.contract_rows_by_dept[<<"A">>][1].w_hrs = Rat(3, 2)
    /\ payroll_acc.contract_rows_by_dept[<<"A">>][1].wage = Flt(160)
    /\ payroll_acc.contract_rows_by_dept[<<"A">>][2].h_col = Zero
    /\ payroll_acc.contract_rows_by_dept[<<"A">>][2].wage = Rat(75, 2)
    /\ payroll_acc.calculated_wages[<<"A">>] = Rat(395, 2)

\* C12: for any contract-payroll table (punch times malformed or missing,
\* a rate that is not a number, arithmetic that overflows, the hours or
\* dollar column missing, the rate or a punch-time column not resolved) no
\* exception leaves the processing of a row.
C12_NoRowException == payroll_raised = PyNone

-----------------------------------------------------------------------------
(* Claims about unresolved columns *)

\* a required column of the table is not resolved: the column the category
\* groups by, or the column it sums (the visits column is optional)
Unresolved(category, table) ==
    ~table.cols.code \/ (category # "visits" /\ ~table.cols.amount)

\* C13: when a required column (the department code, or the amount or total)
\* of a non-empty table cannot be resolved, the aggregator of that category
\* (revenue, payroll history, salary, visits, budget) yields an empty result
\* and raises no exception, so that the next category is processed.
C13_UnresolvedYieldsEmpty ==
    \A i \in DOMAIN agg_out :
        (/\ agg_out[i] # PyNone
         /\ Unresolved(agg_out[i].category, agg_tables[agg_out[i].category]))
            => agg_out[i].result = Returned(EmptyDict)

-----------------------------------------------------------------------------
(* Claims about generate_analysis *)

\* an error payload was posted to the webhooks
ErrorForwarded ==
    \E i \in DOMAIN ga_webhooks : ga_webhooks[i].payload = "error"

\* C14: when a fetch fails for good, or any other exception occurs during
\* fetching, aggregation or report building, generate_analysis returns no
\* result, forwards an error payload to the webhooks if and only if the
\* resort configuration came from the environment, and re-raises the
\* exception it caught to its caller.
C14_ForwardThenReraise ==
    (ga_exc # PyNone /\ ga_pc \notin {"except"})
        => /\ ga_pc = "raised"
           /\ ga_outcome = Raised(ga_exc)
           /\ ErrorForwarded <=> resort_config_from_env

-----------------------------------------------------------------------------
(* Claims about the aggregation of a run *)

FourActualRanges ==
    { "For The Day (Actual)", "For The Week Ending (Actual)",
      "Month to Date (Actual)", "For Winter Ending (Actual)" }

\* the total of a department in a table of totals, 0 when it has none
TotalOf(totals, d) == IF d \in DOMAIN totals THEN totals[d] ELSE Zero

PayrollProcessed == run_pc \in {"budget", "done"}

\* C1: in a run that is not a current-date run, for every range and every
\* department that _process_payroll emits, the final payroll is contract
\* total + salary total when the range is one of the four Actual ranges and
\* the history total in every other range, Week Total (Prior Year) included.
C1_PayrollDispatch ==
    (PayrollProcessed /\ ~is_current) =>
        \A name \in RangeNames :
            \A d \in DOMAIN processed_payroll[name] :
                processed_payroll[name][d] =
                    IF name \in FourActualRanges
                    THEN FAdd(TotalOf(contract_by_range[name], d),
                              TotalOf(salary_by_range[name], d))
                    ELSE TotalOf(history_by_range[name], d)

\* Week Total (Prior Year) with contract, salary and history totals of
\* department A, all different and not zero
C1_Witness ==
    /\ PayrollProcessed
    /\ ~is_current
    /\ <<"A">> \in DOMAIN processed_payroll["Week Total (Prior Year)"]
    /\ TotalOf(contract_by_range["Week Total (Prior Year)"], <<"A">>) = Flt(600)
    /\ TotalOf(salary_by_range["Week Total (Prior Year)"], <<"A">>) = Flt(300)
    /\ processed_payroll["Week Total (Prior Year)"][<<"A">>] = Flt(70)

\* C2: in a current-date run, after _process_payroll, every range has payroll
\* 0.0 for every department that is a key of its revenue, and no payroll
\* entry for any other department.
C2_CurrentDateZero ==
    (PayrollProcessed /\ is_current) =>
        \A name \in RangeNames :
            /\ DOMAIN processed_payroll[name] = DOMAIN processed_revenue[name]
            /\ \A d \in DOMAIN processed_payroll[name] :
                  processed_payroll[name][d] = Zero

\* a current-date run in which a range has revenue for department A and
\* payroll tables with rows of another department
C2_Witness ==
    /\ PayrollProcessed
    /\ is_current
    /\ \E name \in RangeNames :
         /\ <<"A">> \in DOMAIN processed_revenue[name]
         /\ processed_revenue[name][<<"A">>] # Zero
         /\ processed_payroll[name] = [d \in {<<"A">>} |-> Zero]
         /\ \E i \in DOMAIN data_store[name].salary_payroll.rows :
               TrimDeptCode(data_store[name].salary_payroll.rows[i].code) = <<"C">>

\* no write to the title map is to a department code that already has a title
NoTitleWrittenTwice ==
    \A i, j \in DOMAIN title_writes :
        i < j => title_writes[i][1] # title_writes[j][1]

\* the title map holds what was written to it, and nothing else
TitleMapIsWhatWasWritten ==
    /\ DOMAIN code_to_title_map = { title_writes[i][1] : i \in DOMAIN title_writes }
    /\ \A i \in DOMAIN title_writes :
          code_to_title_map[title_writes[i][1]] = title_writes[i][2]

\* C4: across the aggregator calls of a run, once the title map holds a title
\* for a department code that entry is never changed: no call changes an
\* entry the map held before it, and no write within a call is to a code that
\* has an entry.
C4_TitleNeverChanged ==
    /\ [][\A c \in DOMAIN code_to_title_map :
             /\ c \in DOMAIN code_to_title_map'
             /\ code_to_title_map'[c] = code_to_title_map[c]]_vars
    /\ [](NoTitleWrittenTwice /\ TitleMapIsWhatWasWritten)

\* a finished run in which the revenue gave department A its title and later
\* rows of the contract payroll and of the budget carried other titles for A
C4_Witness ==
    /\ run_pc = "done"
    /\ <<"A">> \in DOMAIN code_to_title_map
    /\ code_to_title_map[<<"A">>] = <<"S", "k", "i">>
    /\ \E name \in RangeNames :
         /\ \E i \in DOMAIN data_store[name].payroll.rows :
               /\ TrimDeptCode(data_store[name].payroll.rows[i].code) = <<"A">>
               /\ data_store[name].payroll.rows[i].title = StrCell(<<"R", "e", "n", "t">>)
         /\ \E i \in DOMAIN data_store[name].budget.rows :
               /\ TrimDeptCode(data_store[name].budget.rows[i].code) = <<"A">>
               /\ data_store[name].budget.rows[i].title = StrCell(<< >>)

-----------------------------------------------------------------------------
(* Claims about the fetches of generate_analysis *)

\* the fetches issued for a range
FetchedFor(name) ==
    { ga_fetched[i].key : i \in { j \in DOMAIN ga_fetched :
                                  ga_fetched[j].range = name } }

\* C16: a payroll-history fetch is issued for a range only if the range is
\* not one of the four Actual ranges; contract-payroll and salary-payroll
\* fetches are issued only for the four Actual ranges; on a current-date run
\* none of the three is issued; revenue, visits and weather are fetched for
\* every range the loop has passed, in current-date runs and in the others.
C16_FetchesByRange ==
    /\ \A i \in DOMAIN ga_fetched :
          LET fetch == ga_fetched[i]
          IN  /\ fetch.key = "payroll_history"
                    => fetch.range \notin FourActualRanges
              /\ fetch.key \in {"payroll", "salary_payroll"}
                    => fetch.range \in FourActualRanges
              /\ ga_is_current
                    => fetch.key \notin {"payroll", "salary_payroll",
                                         "payroll_history"}
    /\ \A k \in 1 .. ga_ranges_done :
          {"revenue", "visits", "snow"} \subseteq FetchedFor(range_names_ordered[k])

\* a run that is not a current-date run has fetched every range: the history
\* of a prior-year range, the contract and salary payroll of an Actual one
C16_Witness ==
    /\ ga_pc = "aggregate"
    /\ ~ga_is_current
    /\ ga_ranges_done = Len(range_names_ordered)
    /\ "payroll_history" \in FetchedFor("Week Total (Prior Year)")
    /\ {"payroll", "salary_payroll"} \subseteq FetchedFor("For The Day (Actual)")

-----------------------------------------------------------------------------
(* Claims about main *)

\* the paths of one kind that the calls that returned have set, in order
RECURSIVE PathsOfCalls(_, _)
PathsOfCalls(calls, kind) ==
    IF calls = << >> THEN << >>
    ELSE LET did == Head(calls).did
         IN  (IF did.kind = "return" /\ did.value[kind] # PyNone
              THEN <<did.value[kind]>> ELSE << >>)
             \o PathsOfCalls(Tail(calls), kind)

\* C15: main attempts every resort of the list exactly once, in list order,
\* whatever the earlier resorts did: an exception of generate_analysis is
\* caught and the loop goes on; the lists returned hold exactly the report
\* paths and the insights paths of the resorts that succeeded.
C15_EveryResortOnce ==
    /\ \A i \in DOMAIN main_calls : main_calls[i].resort_config = resorts[i]
    /\ main_pc = "returned" => Len(main_calls) = Len(resorts)
    /\ saved_files.reports = PathsOfCalls(main_calls, "report_path")
    /\ saved_files.insights = PathsOfCalls(main_calls, "insights_path")

\* main returned after a resort raised, a later one succeeded with both
\* paths and another succeeded without an insights file
C15_Witness ==
    /\ main_pc = "returned"
    /\ main_calls[1].did.kind = "raise"
    /\ main_calls[2].did.kind = "return"
    /\ main_calls[2].did.value.insights_path # PyNone
    /\ main_calls[3].did.kind = "return"
    /\ main_calls[3].did.value.insights_path = PyNone
    /\ Len(saved_files.reports) = 2
    /\ Len(saved_files.insights) = 1

-----------------------------------------------------------------------------
(* Claims about department codes and titles *)

\* C17: a row whose department code is empty once trimmed is skipped by every
\* aggregator: the empty string is never a key of a revenue, payroll or
\* budget table, never a member of the department set and never a key of the
\* title map.
C17_EmptyCodeSkipped ==
    /\ \A name \in DOMAIN processed_revenue :
          /\ << >> \notin DOMAIN processed_revenue[name]
          /\ << >> \notin DOMAIN processed_payroll[name]
          /\ << >> \notin DOMAIN processed_financial_budget[name]
    /\ << >> \notin departments_set
    /\ << >> \notin DOMAIN code_to_title_map

\* the sum of the normalized revenue cells of the rows whose trimmed code is
\* the given one
RECURSIVE RevenueOfCode(_, _)
RevenueOfCode(rows, dept_code) ==
    IF rows = << >> THEN Zero
    ELSE IF Head(rows).code # PyNone /\ TrimDeptCode(Head(rows).code) = dept_code
    THEN FAdd(Normalized(Head(rows).revenue), RevenueOfCode(Tail(rows), dept_code))
    ELSE RevenueOfCode(Tail(rows), dept_code)

\* C18: the revenue aggregator keys its result by trimmed department code and
\* sums: revenue[range][c] is the sum of the normalized revenue amounts of
\* all rows of the table of the range whose trimmed code is c, also when the
\* raw codes differ by surrounding whitespace.
C18_RevenueSummedByTrimmedCode ==
    run_pc \in {"payroll", "budget", "done"} =>
        \A name \in DOMAIN processed_revenue :
            \A dept_code \in DOMAIN processed_revenue[name] :
                processed_revenue[name][dept_code] =
                    RevenueOfCode(data_store[name].revenue.rows, dept_code)

\* the titles that are not empty once stripped, of the rows of a table whose
\* trimmed code is the given one, in row order
RECURSIVE TitlesInRows(_, _, _)
TitlesInRows(rows, has_title_col, dept_code) ==
    IF rows = << >> \/ ~has_title_col THEN << >>
    ELSE (IF /\ Head(rows).code # PyNone
             /\ TrimDeptCode(Head(rows).code) = dept_code
             /\ NotNa(Head(rows).title)
             /\ StrStrip(PyStr(Head(rows).title)) # << >>
          THEN <<StrStrip(PyStr(Head(rows).title))>> ELSE << >>)
         \o TitlesInRows(Tail(rows), has_title_col, dept_code)

\* the titles the tables of the given kinds supply for a code, range by range
RECURSIVE TitlesInTables(_, _, _)
TitlesInTables(names, kinds, dept_code) ==
    IF names = << >> THEN << >>
    ELSE IF kinds = << >> THEN << >>
    ELSE LET table == data_store[Head(names)][Head(kinds)]
         IN  TitlesInRows(table.rows, table.cols.title, dept_code)
             \o TitlesInTables(<<Head(names)>>, Tail(kinds), dept_code)
             \o TitlesInTables(Tail(names), kinds, dept_code)

\* the titles the sources of the run supply for a code, in processing order:
\* the revenue tables, then the contract and salary tables of each range
\* (read in runs that are not current-date runs), then the budget tables of
\* the Actual ranges
TitlesSupplied(dept_code) ==
    TitlesInTables(range_names_ordered, <<"revenue">>, dept_code)
    \o (IF is_current THEN << >>
        ELSE TitlesInTables(range_names_ordered, <<"payroll", "salary_payroll">>,
                            dept_code))
    \o TitlesInTables(actual_range_names, <<"budget", "budget_week_total">>,
                      dept_code)

\* C19: at the end of a run, for every department code for which a row of a
\* source (revenue, contract payroll, salary payroll, budget) carried a title
\* that is not empty, the title map holds the first such title in processing
\* order; the code itself is the title only when no source supplied one.
C19_FirstNonEmptyTitle ==
    run_pc = "done" =>
        \A dept_code \in DOMAIN code_to_title_map \ {<< >>} :
            IF TitlesSupplied(dept_code) # << >>
            THEN code_to_title_map[dept_code] = TitlesSupplied(dept_code)[1]
            ELSE code_to_title_map[dept_code] = dept_code

-----------------------------------------------------------------------------
(* Claims about the budget tables *)

\* the budget table _process_budget reads for a range
BudgetTableOf(name) ==
    IF name = "For The Week Ending (Actual)"
    THEN data_store[name].budget_week_total
    ELSE data_store[name].budget

\* the type of a budget row, stripped and lower-cased, holds the word
TypeHolds(row, word) ==
    NotNa(row.type) /\ StrContains(StrLower(StrStrip(PyStr(row.type))), word)

\* the amount of the last of the given rows, 0 when there is none
LastAmount(rows, indexes) ==
    IF indexes = {} THEN Zero
    ELSE Normalized(rows[CHOOSE i \in indexes : \A j \in indexes : j <= i].amount)

\* the rows of a department that are not visits rows
FinancialRows(rows, dept_code) ==
    { i \in DOMAIN rows :
        /\ TrimDeptCode(rows[i].code) = dept_code
        /\ ~TypeHolds(rows[i], <<"v","i","s","i","t","s">>) }

\* the visits rows whose code the mapping sends to the location
VisitsRows(rows, location) ==
    { i \in DOMAIN rows :
        /\ TypeHolds(rows[i], <<"v","i","s","i","t","s">>)
        /\ TrimDeptCode(rows[i].code) \in DOMAIN VISITS_DEPT_CODE_MAPPING
        /\ VISITS_DEPT_CODE_MAPPING[TrimDeptCode(rows[i].code)] = location }

\* C20: the budget aggregator classifies every row with a non-empty
\* department code by its lower-cased, trimmed type: a type holding 'visits'
\* only sets the Visits-Budget entry of the mapped location, and only when
\* the code is in the mapping; otherwise a type holding 'payroll' only sets
\* the Payroll value of the department; otherwise a type holding 'revenue'
\* only sets its Revenue value; and the budget tables are filled only for
\* the four Actual ranges.
C20_BudgetClassification ==
    run_pc = "done" =>
        \A name \in DOMAIN processed_financial_budget :
            LET rows == BudgetTableOf(name).rows
                financial == processed_financial_budget[name]
                visits == processed_visits_budget[name]
            IN  IF name \notin FourActualRanges
                THEN financial = EmptyDict /\ visits = EmptyDict
                ELSE
                /\ \A d \in DOMAIN financial :
                      d # << >> /\ FinancialRows(rows, d) # {}
                /\ \A i \in DOMAIN rows :
                      (/\ TrimDeptCode(rows[i].code) # << >>
                       /\ ~TypeHolds(rows[i], <<"v","i","s","i","t","s">>))
                          => TrimDeptCode(rows[i].code) \in DOMAIN financial
                /\ \A d \in DOMAIN financial :
                      /\ financial[d].Payroll =
                            LastAmount(rows,
                                { i \in FinancialRows(rows, d) :
                                    TypeHolds(rows[i], <<"p","a","y","r","o","l","l">>) })
                      /\ financial[d].Revenue =
                            LastAmount(rows,
                                { i \in FinancialRows(rows, d) :
                                    /\ ~TypeHolds(rows[i], <<"p","a","y","r","o","l","l">>)
                                    /\ TypeHolds(rows[i], <<"r","e","v","e","n","u","e">>) })
                /\ DOMAIN visits =
                      { VISITS_DEPT_CODE_MAPPING[d] : d \in
                          { c \in DOMAIN VISITS_DEPT_CODE_MAPPING :
                              VisitsRows(rows, VISITS_DEPT_CODE_MAPPING[c]) # {} } }
                /\ \A location \in DOMAIN visits :
                      visits[location] = LastAmount(rows, VisitsRows(rows, location))

\* a run is over whose budget table held a visits row of a mapped code that
\* also names payroll, a visits row of a code that is not mapped, and a row
\* that names both payroll and revenue
C20_Witness ==
    /\ run_pc = "done"
    /\ \E name \in FourActualRanges :
          /\ name \in DOMAIN processed_financial_budget
          /\ DOMAIN processed_financial_budget[name] = {<<"B">>}
          /\ processed_financial_budget[name][<<"B">>] =
                [Payroll |-> Flt(7), Revenue |-> Flt(5)]
          /\ DOMAIN processed_visits_budget[name] = {<<"l","o","d","g","e">>}
          /\ processed_visits_budget[name][<<"l","o","d","g","e">>] = Flt(2)
          /\ Len(BudgetTableOf(name).rows) = 4

-----------------------------------------------------------------------------
(* Claims about computing the date ranges twice *)

\* C21: the date range computation is idempotent: two computations with the
\* same reference date, is_current_date and use_exact_date return the same
\* map of ranges, for every combination of the flags, is_current_date = true
\* included.
C21_SameInputsSameRanges ==
    (run_date_arg # PyNone /\ first_ranges # NotCalled /\ ranges # NotCalled)
        => ranges = first_ranges

-----------------------------------------------------------------------------
(* Claims about the base date and the weeks *)

\* 23:59:59 of the day
IsEndOfDay(dt) == dt.second = SecondsPerDay - 1 /\ dt.microsecond = 0

\* 00:00:00 of the day
IsStartOfDay(dt) == dt.second = 0 /\ dt.microsecond = 0

\* C22: the base date is the reference date itself when is_current_date is
\* true, whatever use_exact_date; the reference date at 23:59:59 when only
\* use_exact_date is true; the day before the reference date at 23:59:59
\* otherwise.  The four Actual ranges end at the wall-clock time read when
\* is_current_date is true and at the base date in every other case.
C22_BaseDateAndActualEnd ==
    /\ dates_pc = "ready" =>
          /\ is_current_date_arg => base_date = run_date
          /\ (~is_current_date_arg /\ use_exact_date) =>
                /\ ToOrdinal(base_date) = ToOrdinal(run_date)
                /\ IsEndOfDay(base_date)
          /\ (~is_current_date_arg /\ ~use_exact_date) =>
                /\ ToOrdinal(base_date) = ToOrdinal(run_date) - 1
                /\ IsEndOfDay(base_date)
          /\ is_current_date_arg =>
                \E step \in 0..MaxClockStep : current_time = PlusSeconds(clock, step)
    /\ ranges # NotCalled =>
          \A name \in FourActualRanges :
              ranges.value[name][2] =
                  IF is_current_date_arg THEN current_time ELSE base_date

\* the ranges of a calculator built with both flags true, whose reference
\* date is neither at 23:59:59 nor the wall-clock time
C22_Witness ==
    /\ ranges # NotCalled
    /\ is_current_date_arg
    /\ use_exact_date
    /\ base_date = run_date
    /\ ~IsEndOfDay(base_date)
    /\ current_time # base_date
    /\ ranges.value["For The Day (Actual)"][2] = current_time

\* the range starts on the Monday 00:00:00 of the week of its end
StartsOnMondayOfEnd(range) ==
    /\ IsStartOfDay(range[1])
    /\ Weekday(range[1]) = 0
    /\ ToOrdinal(range[1]) = ToOrdinal(range[2]) - Weekday(range[2])

\* the week total runs from the Monday 00:00:00 that starts the week-ending
\* range to the Sunday 23:59:59 that follows, and holds the week-ending range
WeekTotalHolds(total, ending) ==
    /\ total[1] = ending[1]
    /\ IsStartOfDay(total[1])
    /\ Weekday(total[1]) = 0
    /\ ToOrdinal(total[2]) = ToOrdinal(total[1]) + 6
    /\ IsEndOfDay(total[2])
    /\ DtLE(ending[2], total[2])

\* C23: for every base date and every combination of the flags, Day (Prior
\* Year) is the full day, 00:00:00 to 23:59:59, exactly 52 weeks before the
\* base date, on the same weekday; Week Ending (Actual) and Week Ending
\* (Prior Year) start on the Monday 00:00 of the week of their end; each Week
\* Total runs from that Monday 00:00 to the Sunday 23:59:59 that follows and
\* holds the matching Week Ending range.
C23_PriorDayAndWeeks ==
    ranges # NotCalled =>
        LET day == ranges.value["For The Day (Prior Year)"]
        IN  /\ IsStartOfDay(day[1])
            /\ IsEndOfDay(day[2])
            /\ ToOrdinal(day[1]) = ToOrdinal(base_date) - 52 * 7
            /\ ToOrdinal(day[2]) = ToOrdinal(base_date) - 52 * 7
            /\ Weekday(day[1]) = Weekday(base_date)
            /\ StartsOnMondayOfEnd(ranges.value["For The Week Ending (Actual)"])
            /\ StartsOnMondayOfEnd(ranges.value["For The Week Ending (Prior Year)"])
            /\ WeekTotalHolds(ranges.value["Week Total (Prior Year)"],
                              ranges.value["For The Week Ending (Prior Year)"])
            /\ week_total_actual_ret # NotCalled =>
                  WeekTotalHolds(week_total_actual_ret.value,
                                 ranges.value["For The Week Ending (Actual)"])

-----------------------------------------------------------------------------
(* Claims about the variance percentage away from a zero baseline *)

\* both arguments are finite floats and the baseline is 1e-10 or more in
\* magnitude
BaselineAwayFromZero ==
    /\ var_baseline.py = "float"
    /\ var_actual.py = "float"
    /\ IsFinite(var_baseline.x)
    /\ IsFinite(var_actual.x)
    /\ ~BaselineAboutZero

\* ((actual - baseline) / baseline) * 100
VarianceFormula(baseline, actual) ==
    FMul(FDiv(FSub(actual, baseline), baseline), Flt(100))

\* C24: for a baseline of magnitude 1e-10 or more, calculate_variance_percentage
\* returns ((actual - baseline) / baseline) * 100, and it returns 0 only when
\* the actual value equals the baseline.  No argument drawn is large enough
\* for the arithmetic on floats to overflow.
C24_VarianceIsFormula ==
    (BaselineAwayFromZero /\ var_ret # NotCalled) =>
        /\ var_ret = Returned(VarianceFormula(var_baseline.x, var_actual.x))
        /\ var_ret = Returned(Zero) => var_actual.x = var_baseline.x

-----------------------------------------------------------------------------
(* Claims about the budget cells of the report and of the insights table *)

\* the amounts of the rows of a budget table
FetchAmounts(table) ==
    { Normalized(table.rows[i].amount) : i \in DOMAIN table.rows }

\* the rows the full-week and the week-to-date fetch returned
WeekTotalFetch == rp_store["For The Week Ending (Actual)"].budget_week_total
WeekToDateFetch == rp_store["For The Week Ending (Actual)"].budget_week_to_date

\* the budget figures of the insights table for the week-ending range
InsightsWeekBudgets ==
    UNION { { rp_insights[section][i].data["For The Week Ending (Actual)"].budget :
                i \in DOMAIN rp_insights[section] } :
            section \in {"Visits", "Payroll", "Revenue"} }

\* the Week Total budget cells of the financial rows of the report
ReportWeekTotalBudgets ==
    LET cells == rp_report.financials["Week Total (Actual) (Budget)"]
    IN  UNION { {cells[d].Revenue, cells[d].Payroll} : d \in DOMAIN cells }

\* C25: when the week-to-date budget fetch returned rows, every budget
\* figure of the insights table for For The Week Ending (Actual), of Visits,
\* Payroll and Revenue, is an amount of that fetch (or 0 when it has no row
\* for the figure) and never an amount of the full-week fetch; the Week
\* Total budget cells of the report are
\* amounts of the full-week fetch; and processed_budget is, after the budget
\* of the insights is built, what _process_budget returned.
C25_InsightsBudgetIsWeekToDate ==
    /\ (rp_insights # NotCalled /\ ~IsEmpty(WeekToDateFetch)) =>
          \A figure \in InsightsWeekBudgets :
              /\ figure \notin FetchAmounts(WeekTotalFetch)
              /\ figure = Zero \/ figure \in FetchAmounts(WeekToDateFetch)
    /\ rp_report # NotCalled =>
          \A cell \in ReportWeekTotalBudgets :
              /\ cell \notin FetchAmounts(WeekToDateFetch)
              /\ cell = Zero \/ cell \in FetchAmounts(WeekTotalFetch)
    /\ rp_pc \in {"report", "insights", "done"} =>
          rp_processed_budget =
             ProcessBudget(actual_range_names, rp_store, VISITS_DEPT_CODE_MAPPING,
                 [processed_financial_budget |-> EmptyByRange,
                  processed_visits_budget |-> EmptyByRange,
                  shared |-> rp_shared]).processed_financial_budget

\* the Visits-Budget amount of a location in a Budget column: the amount
\* processed_visits_budget holds under the processed location name
VisitsBudgetOf(col_name, location) ==
    DictGet(rp_visits_budget[GetBudgetRangeName(col_name)],
            ProcessLocationName(location, ReportResortName), Zero)

\* C26: in the JSON report every Visits location row carries in each Budget
\* column the Visits-Budget amount of its location, as the workbook does,
\* and the Total Tickets cell of the column is the sum of these cells.
C26_JsonVisitsBudgetAsWorkbook ==
    (rp_report # NotCalled /\ rp_report.format = "json") =>
        \A col_name \in BudgetColumns :
            /\ \A location \in rp_locations :
                  rp_report.visits.locations[col_name][location] =
                     VisitsBudgetOf(col_name, location)
            /\ rp_report.visits.total_tickets[col_name] =
                  SumValues(rp_report.visits.locations[col_name])

-----------------------------------------------------------------------------
(* Claims about tables that hold several rows of a department *)

\* the rows of a table whose trimmed department code is the given one
RowsOfCode(rows, dept_code) ==
    { i \in DOMAIN rows : TrimDeptCode(rows[i].code) = dept_code }

\* the trimmed, non-empty department codes of the rows of a table
CodesOf(rows) == { TrimDeptCode(rows[i].code) : i \in DOMAIN rows } \ {<< >>}

\* the total of the last of the given rows
LastTotal(rows, indexes) ==
    Normalized(rows[CHOOSE i \in indexes : \A j \in indexes : j <= i].total)

\* C27: only the contract payroll accumulates over rows.  For every range of
\* a run that is not a current-date run, the salary total and the history
\* total of a department are the total of the last row of the table with that
\* trimmed code, and the contract total is the sum of the wages of its rows;
\* the budget Payroll and Revenue values of a department are the amount of
\* the last row of that department and type.
C27_LastRowWins ==
    run_pc = "done" =>
        \A name \in RangeNames :
            LET salary == data_store[name].salary_payroll.rows
                history == data_store[name].payroll_history.rows
                contract == data_store[name].payroll
                budget == BudgetTableOf(name).rows
                financial == processed_financial_budget[name]
            IN  /\ ~is_current =>
                      /\ DOMAIN salary_by_range[name] = CodesOf(salary)
                      /\ DOMAIN history_by_range[name] = CodesOf(history)
                      /\ DOMAIN contract_by_range[name] = CodesOf(contract.rows)
                /\ \A d \in DOMAIN salary_by_range[name] :
                      salary_by_range[name][d] = LastTotal(salary, RowsOfCode(salary, d))
                /\ \A d \in DOMAIN history_by_range[name] :
                      history_by_range[name][d] =
                         LastTotal(history, RowsOfCode(history, d))
                /\ \A d \in DOMAIN contract_by_range[name] :
                      contract_by_range[name][d] =
                         SumOfWages(RowsOfDept(contract.rows, d), contract.cols)
                /\ \A d \in DOMAIN financial :
                      /\ financial[d].Payroll =
                            LastAmount(budget,
                                { i \in FinancialRows(budget, d) :
                                    TypeHolds(budget[i], <<"p","a","y","r","o","l","l">>) })
                      /\ financial[d].Revenue =
                            LastAmount(budget,
                                { i \in FinancialRows(budget, d) :
                                    /\ ~TypeHolds(budget[i], <<"p","a","y","r","o","l","l">>)
                                    /\ TypeHolds(budget[i], <<"r","e","v","e","n","u","e">>) })

\* a run whose week-ending range held two salary rows of department C (50,
\* then 60), two history rows of department A (70, then 20), three contract
\* rows of department A and two budget rows of each type of department B
\* (Payroll 7 then 9, Revenue 5 then 6)
C27_Witness ==
    /\ run_pc = "done"
    /\ ~is_current
    /\ LET name == "For The Week Ending (Actual)"
       IN  /\ Len(data_store[name].salary_payroll.rows) = 3
           /\ salary_by_range[name][<<"C">>] = Flt(60)
           /\ Len(data_store[name].payroll_history.rows) = 2
           /\ history_by_range[name][<<"A">>] = Flt(20)
           /\ Len(RowsOfDept(data_store[name].payroll.rows, <<"A">>)) = 3
           /\ <<"A">> \in DOMAIN contract_by_range[name]
           /\ Len(data_store[name].budget_week_total.rows) = 4
           /\ processed_financial_budget[name][<<"B">>] =
                 [Payroll |-> Flt(9), Revenue |-> Flt(6)]

-----------------------------------------------------------------------------
(* Claims about the sections of the top/bottom ranking *)

\* the boundaries of the section of each header row that
\* _generate_insights_dataframe emitted: the Visits header is row 0, the
\* Payroll header follows the location rows and the Revenue header the
\* Payroll rows
EmittedSections ==
    LET n_locations == Cardinality(all_locations)
        n_departments == Cardinality(all_departments)
    IN  [s \in SectionNames |->
           CASE s = "Visits" -> <<0, n_locations + 1>>
             [] s = "Payroll" ->
                  <<n_locations + 1, n_locations + n_departments + 2>>
             [] s = "Revenue" ->
                  <<n_locations + n_departments + 2,
                    n_locations + 2 * n_departments + 3>>]

\* C28: the section boundaries the ranking finds are the three header rows
\* that _generate_insights_dataframe emitted, and only these, so that every
\* data row is ranked in the section under whose header it was emitted and
\* in no other, also when a location name or a department title is itself
\* 'Visits', 'Payroll' or 'Revenue'.
C28_RowsRankedUnderTheirHeader ==
    tb_pc = "done" =>
        /\ tb_sections = EmittedSections
        /\ \A s \in DOMAIN tb_result :
              Elements(tb_result[s].top) \cup Elements(tb_result[s].bottom)
                 \subseteq SectionRowsOf(insights_df, EmittedSections[s])

-----------------------------------------------------------------------------
(* Claims about the department set and the totals of a column *)

\* the trimmed department codes of the rows of the tables of the given kinds,
\* over all ranges
CodesInTables(kinds) ==
    UNION { { TrimDeptCode(data_store[name][kind].rows[i].code) :
                i \in DOMAIN data_store[name][kind].rows } :
            name \in RangeNames, kind \in kinds }

\* the departments that only budget rows name
BudgetOnlyDepartments ==
    CodesInTables({"budget", "budget_week_total"})
       \ CodesInTables({"revenue", "payroll", "salary_payroll", "payroll_history"})

\* C29: at the end of the aggregation of a run, for every range every key of
\* the revenue table and of the payroll table is in the shared department
\* set, the Total Revenue and Total Payroll cells of the column of the range
\* are the sums of the Revenue and Payroll cells of the department rows, and
\* no department that only budget rows name is in the set.
C29_KeysInDepartmentSet ==
    run_pc = "done" =>
        /\ \A name \in RangeNames :
              /\ DOMAIN processed_revenue[name] \subseteq departments_set
              /\ DOMAIN processed_payroll[name] \subseteq departments_set
              /\ TotalCell(processed_revenue[name]) =
                    SumValues(FinancialCells(processed_revenue[name], departments_set))
              /\ TotalCell(processed_payroll[name]) =
                    SumValues(FinancialCells(processed_payroll[name], departments_set))
        /\ BudgetOnlyDepartments \cap departments_set = {}

\* a run that is not a current-date run whose week-ending range has revenue
\* of A, payroll of A and C (60) and a budget of B: the set holds A and C,
\* Total Payroll is the sum of the payroll of A and of C, and B, which only
\* the budget names, has a budget entry and is not in the set
C29_Witness ==
    /\ run_pc = "done"
    /\ ~is_current
    /\ LET name == "For The Week Ending (Actual)"
       IN  /\ DOMAIN processed_revenue[name] = {<<"A">>}
           /\ DOMAIN processed_payroll[name] = {<<"A">>, <<"C">>}
           /\ processed_payroll[name][<<"C">>] = Flt(60)
           /\ processed_payroll[name][<<"A">>] # Zero
           /\ TotalCell(processed_payroll[name]) =
                 FAdd(processed_payroll[name][<<"A">>], Flt(60))
           /\ <<"B">> \in DOMAIN processed_financial_budget[name]
    /\ BudgetOnlyDepartments = {<<"B">>}
    /\ departments_set = {<<"A">>, <<"C">>}

=============================================================================
